---- MODULE Spec2Model ----
(***************************************************************************)
(* Image-Based Relighting Framework: lighting basis, Voronoi partition,    *)
(* light identification and solid-angle integration.                       *)
(*                                                                         *)
(* A point (cv::Point2i) is a pair <<x, y>> of integers.  cv::Subdiv2D is  *)
(* an OpenCV class; it is modelled by its documented contract: the set of  *)
(* inserted sites, insert() raising cv::Exception for a point outside the  *)
(* bounding rectangle, findNearest() returning a site at minimum distance. *)
(* Floating-point sums are modelled in exact integer arithmetic.           *)
(***************************************************************************)
EXTENDS Integers, Sequences, FiniteSets, TLC

VARIABLES
    basis,                          \* a stand-alone LightingBasis object
    basisFile,                      \* content of basis.txt (lines <<index, x, y>>)
    voronoiFile,                    \* voronoi.txt: its lines of integers, if it exists
    m_basis,                        \* Voronoi::m_basis
    m_numberOfPixelsInVoronoiCell,  \* Voronoi::m_numberOfPixelsInVoronoiCell
    m_voronoiSubdivision,           \* Voronoi::m_voronoiSubdivision (set of sites)
    m_cellNumberPerPicture,         \* Voronoi::m_cellNumberPerPicture
    m_rgbWeights,                   \* Voronoi::m_rgbWeights
    m_intensity,                    \* Voronoi::m_intensity
    m_envMapWidth,                  \* Voronoi::m_envMapWidth
    m_envMapHeight,                 \* Voronoi::m_envMapHeight
    aborted,                        \* a cv::Exception left the running handler
    lastCall,                       \* the operation that ran last, with its inputs
    m_environmentMap,               \* the map of the last integration
    lastOffset,                     \* the offset of the last integration
    m_masks,                        \* the mask files of the last integration
    m_indirectLightPicture,         \* OfficeRoomRelighting::m_indirectLightPicture
    m_weightsRGB,                   \* Relighting::m_weightsRGB
    m_lightType,                    \* Relighting::m_lightType
    m_optimisationMethod,           \* OfficeRoomRelighting::m_optimisationMethod
    startingPointArray,             \* the array of relighting(), <<>> before it is allocated
    optimisationGlobals,            \* the static variables of optimisation.cpp
    optimisations,                  \* the Optimisation objects that are alive
    optimised,                      \* the last run of an optimiser
    files,                          \* the files that relighting() has found on the disk
    m_reflectanceField,             \* Relighting::m_reflectanceField
    m_objectMask,                   \* Relighting::m_objectMask
    cerr,                           \* the lines written to std::cerr
    runs,                           \* the runs started after the first one
    mouseParameters,                \* the MouseParameters of relighting()
    manualSelection,                \* the local variables of identifyLightsUser
    window,                         \* the office-room tab: object and spin boxes
    masksOfRun                      \* the mask files that the readers of a run have opened

basisVars == <<basis, basisFile, voronoiFile>>
userVars == <<mouseParameters, manualSelection>>
sessionVars == <<runs, userVars, window, masksOfRun>>
relightingVars == <<m_environmentMap, lastOffset, m_masks, m_indirectLightPicture, m_weightsRGB>>
optVars == <<m_optimisationMethod, startingPointArray, optimisationGlobals, optimisations,
             optimised>>
loadVars == <<files, m_reflectanceField, m_objectMask, cerr>>
runVars == <<m_lightType, optVars, loadVars>>
voronoiVars == <<m_basis, m_numberOfPixelsInVoronoiCell, m_voronoiSubdivision,
                 m_cellNumberPerPicture, m_rgbWeights, m_intensity, m_envMapWidth,
                 m_envMapHeight>>
vars == <<basis, basisFile, voronoiFile, m_basis, m_numberOfPixelsInVoronoiCell, m_voronoiSubdivision,
          m_cellNumberPerPicture, m_rgbWeights, m_intensity, m_envMapWidth, m_envMapHeight,
          aborted, lastCall, m_environmentMap, lastOffset, m_masks,
          m_indirectLightPicture, m_weightsRGB, m_lightType, m_optimisationMethod,
          startingPointArray, optimisationGlobals, optimisations, optimised, files,
          m_reflectanceField, m_objectMask, cerr, runs, mouseParameters, manualSelection, window,
          masksOfRun>>

(***************************************************************************)
(* Bounds of the model                                                     *)
(***************************************************************************)
MaxPointLights == 2     \* the add operations run while the basis holds fewer point lights
MaxAreaLights == 1      \* and fewer rectangles than this
MaxBatch == 2           \* longest point list handed to addPointLights / setVoronoi
InitWidth == 3          \* size of the first environment map (relighting() sets it
InitHeight == 2         \* on the fresh Voronoi before anything else)
MaxConditions == 2      \* lighting conditions of a run: 1..MaxConditions
MaxOffsets == 2                 \* m_numberOfOffsets is at most this
ManyConditions == 7     \* ... and one run long enough to hold conditions 5 and 6

(***************************************************************************)
(* Helpers                                                                 *)
(***************************************************************************)
Abs(n) == IF n < 0 THEN -n ELSE n

RECURSIVE SumSeq(_)
SumSeq(s) == IF s = <<>> THEN 0 ELSE Head(s) + SumSeq(Tail(s))

\* int compared with unsigned int: the int is converted to unsigned, so a
\* negative value becomes a huge one and the comparison fails.
LessThanUnsigned(n, u) == n >= 0 /\ n < u

\* cv::saturate_cast<int>(double) on n*0.5: round to nearest, ties to even.
HalfOf(n) ==
    IF n % 2 = 0 THEN n \div 2
    ELSE IF (n \div 2) % 2 = 0 THEN n \div 2 ELSE (n \div 2) + 1

\* (startingPoint + endingPoint) * 0.5 on cv::Point2i
Center(startingPoint, endingPoint) ==
    <<HalfOf(startingPoint[1] + endingPoint[1]), HalfOf(startingPoint[2] + endingPoint[2])>>

(***************************************************************************)
(* LightingBasis                                                           *)
(***************************************************************************)
LightingBasis ==
    [pointLightSourcePosition |-> <<>>, rectanglesAreaLights |-> <<>>,
     areAreaLightsSampled |-> FALSE, numberOfPointLights |-> 0, numberOfAreaLights |-> 0]

LightingBasis_addPointLight(b, lightPosition) ==
    [b EXCEPT !.pointLightSourcePosition = Append(@, lightPosition),
              !.numberOfPointLights = @ + 1]

RECURSIVE LightingBasis_addPointLights_noCount(_, _)
LightingBasis_addPointLights_noCount(b, lightPosition) ==
    IF lightPosition = <<>> THEN b
    ELSE LightingBasis_addPointLights_noCount(
             [b EXCEPT !.pointLightSourcePosition = Append(@, Head(lightPosition))],
             Tail(lightPosition))

RECURSIVE LightingBasis_addPointLights(_, _)
LightingBasis_addPointLights(b, lightPosition) ==
    IF lightPosition = <<>> THEN b
    ELSE LightingBasis_addPointLights(
             [b EXCEPT !.pointLightSourcePosition = Append(@, Head(lightPosition)),
                       !.numberOfPointLights = @ + 1],
             Tail(lightPosition))

LightingBasis_addAreaLight(b, startingPoint, endingPoint) ==
    [b EXCEPT !.rectanglesAreaLights = Append(@, <<startingPoint, endingPoint>>),
              !.numberOfAreaLights = @ + 1,
              !.pointLightSourcePosition = Append(@, Center(startingPoint, endingPoint)),
              !.numberOfPointLights = @ + 1]

RECURSIVE LightingBasis_addAreaLights(_, _)
LightingBasis_addAreaLights(b, areaLights) ==
    IF areaLights = <<>> THEN b
    ELSE LightingBasis_addAreaLights(
             LightingBasis_addAreaLight(b, Head(areaLights)[1], Head(areaLights)[2]),
             Tail(areaLights))

LightingBasis_clearBasis(b) == LightingBasis

\* reorientateRectangle: <<upperLeft, bottomRight>>
reorientateRectangle(startingPoint, endingPoint) ==
    IF startingPoint[1] < endingPoint[1] /\ startingPoint[2] < endingPoint[2]
    THEN <<startingPoint, endingPoint>>
    ELSE IF startingPoint[1] > endingPoint[1] /\ startingPoint[2] < endingPoint[2]
    THEN << <<endingPoint[1], startingPoint[2]>>, <<startingPoint[1], endingPoint[2]>> >>
    ELSE IF startingPoint[1] < endingPoint[1] /\ startingPoint[2] > endingPoint[2]
    THEN << <<startingPoint[1], endingPoint[2]>>, <<endingPoint[1], startingPoint[2]>> >>
    ELSE << <<endingPoint[1], endingPoint[2]>>, <<startingPoint[1], startingPoint[2]>> >>

numberOfPixelsBetweenSamples == 25

\* The inner loop "for l" of uniformSamplingAreaLightSources on one row:
\* positionX advances only when the sample is accepted.
RECURSIVE SampleRow(_, _, _, _, _, _)
SampleRow(l, positionX, positionY, stepWidth, envMapWidth, envMapHeight) ==
    IF l = 0 THEN <<>>
    ELSE IF LessThanUnsigned(positionX, envMapWidth) /\ LessThanUnsigned(positionY, envMapHeight)
         THEN <<  <<positionX, positionY>> >>
              \o SampleRow(l - 1, positionX + stepWidth, positionY, stepWidth,
                           envMapWidth, envMapHeight)
         ELSE SampleRow(l - 1, positionX, positionY, stepWidth, envMapWidth, envMapHeight)

\* The outer loop "for k": positionX is reset and positionY advances after each row.
RECURSIVE SampleRows(_, _, _, _, _, _, _, _)
SampleRows(k, numberOfSamplesX, startX, positionY, stepWidth, stepHeight, envMapWidth, envMapHeight) ==
    IF k = 0 THEN <<>>
    ELSE SampleRow(numberOfSamplesX, startX, positionY, stepWidth, envMapWidth, envMapHeight)
         \o SampleRows(k - 1, numberOfSamplesX, startX, positionY + stepHeight,
                       stepWidth, stepHeight, envMapWidth, envMapHeight)

\* as SamplesOfRectangle, numberOfSamplesY being computed from the width
SamplesOfRectangle_widthTwice(rectangle, envMapWidth, envMapHeight) ==
    LET startingPoint == rectangle[1]
        endingPoint == rectangle[2]
        width == Abs(startingPoint[1] - endingPoint[1])
        height == Abs(startingPoint[2] - endingPoint[2])
        numberOfSamplesX == width \div numberOfPixelsBetweenSamples
        numberOfSamplesY == width \div numberOfPixelsBetweenSamples
        oriented == reorientateRectangle(startingPoint, endingPoint)
        upperLeft == oriented[1]
        bottomRight == oriented[2]
    IN  IF width > numberOfPixelsBetweenSamples /\ height > numberOfPixelsBetweenSamples
        THEN LET stepWidth == width \div numberOfSamplesX
                 stepHeight == height \div numberOfSamplesY
             IN  SampleRows(numberOfSamplesY, numberOfSamplesX,
                            upperLeft[1] + stepWidth \div 2, upperLeft[2] + stepHeight \div 2,
                            stepWidth, stepHeight, envMapWidth, envMapHeight)
        ELSE << Center(upperLeft, bottomRight) >>

\* The point lights one rectangle is expanded into (body of the loop on area lights).
SamplesOfRectangle(rectangle, envMapWidth, envMapHeight) ==
    LET startingPoint == rectangle[1]
        endingPoint == rectangle[2]
        width == Abs(startingPoint[1] - endingPoint[1])
        height == Abs(startingPoint[2] - endingPoint[2])
        numberOfSamplesX == width \div numberOfPixelsBetweenSamples
        numberOfSamplesY == height \div numberOfPixelsBetweenSamples
        oriented == reorientateRectangle(startingPoint, endingPoint)
        upperLeft == oriented[1]
        bottomRight == oriented[2]
    IN  IF width > numberOfPixelsBetweenSamples /\ height > numberOfPixelsBetweenSamples
        THEN LET stepWidth == width \div numberOfSamplesX
                 stepHeight == height \div numberOfSamplesY
             IN  SampleRows(numberOfSamplesY, numberOfSamplesX,
                            upperLeft[1] + stepWidth \div 2, upperLeft[2] + stepHeight \div 2,
                            stepWidth, stepHeight, envMapWidth, envMapHeight)
        ELSE << Center(upperLeft, bottomRight) >>

RECURSIVE SamplesOfRectangles(_, _, _)
SamplesOfRectangles(rectangles, envMapWidth, envMapHeight) ==
    IF rectangles = <<>> THEN <<>>
    ELSE SamplesOfRectangle(Head(rectangles), envMapWidth, envMapHeight)
         \o SamplesOfRectangles(Tail(rectangles), envMapWidth, envMapHeight)

LightingBasis_uniformSamplingAreaLightSources(b, envMapWidth, envMapHeight) ==
    LET samples == SamplesOfRectangles(b.rectanglesAreaLights, envMapWidth, envMapHeight)
    IN  [b EXCEPT !.pointLightSourcePosition = @ \o samples,
                  !.numberOfPointLights = @ + Len(samples),
                  !.areAreaLightsSampled = TRUE]

\* saveBasis writes one line "<i>: <x> <y>" per point light (i counted from 0).
LightingBasis_saveBasis(b) ==
    [i \in 1..Len(b.pointLightSourcePosition) |->
        <<i - 1, b.pointLightSourcePosition[i][1], b.pointLightSourcePosition[i][2]>>]

\* as loadBasis, the content of the basis being replaced by that of the file
LightingBasis_loadBasis_replace(b, file) ==
    LightingBasis_addPointLights([b EXCEPT !.pointLightSourcePosition = <<>>,
                                           !.numberOfPointLights = 0],
                                 [i \in 1..Len(file) |-> <<file[i][2], file[i][3]>>])

\* loadBasis reads three tokens per line, keeps x and y, and appends all of them.
LightingBasis_loadBasis(b, file) ==
    LightingBasis_addPointLights(b, [i \in 1..Len(file) |-> <<file[i][2], file[i][3]>>])

(***************************************************************************)
(* Voronoi.  The operators below work on a record holding the members of   *)
(* one Voronoi object; "aborted" is set when a cv::Exception leaves the    *)
(* method, the assignments made before the throw being kept.               *)
(***************************************************************************)
Dist2(p, q) == (p[1] - q[1]) * (p[1] - q[1]) + (p[2] - q[2]) * (p[2] - q[2])

\* Rect(0, 0, width, height) of the subdivision: cv::Subdiv2D::insert raises
\* cv::Exception for a point outside of it.
InBoundingBox(p, width, height) == p[1] >= 0 /\ p[1] < width /\ p[2] >= 0 /\ p[2] < height

\* cv::Subdiv2D::findNearest: a site at minimum distance; which one among
\* equidistant sites is fixed but arbitrary.
NearestSite(sites, x, y) ==
    CHOOSE s \in sites : \A t \in sites : Dist2(s, <<x, y>>) <= Dist2(t, <<x, y>>)

\* pixels in the order of the loops "for j < width, for i < height"
PixelsColumnMajor(width, height) ==
    [n \in 1..(width * height) |-> <<(n - 1) \div height, (n - 1) % height>>]

\* pixels in the order of the loops "for i < height, for j < width"
PixelsRowMajor(width, height) ==
    [n \in 1..(width * height) |-> <<(n - 1) % width, (n - 1) \div width>>]

RECURSIVE FirstIndexOf(_, _, _)
FirstIndexOf(points, p, i) ==
    IF i > Len(points) THEN -1
    ELSE IF points[i] = p THEN i - 1
    ELSE FirstIndexOf(points, p, i + 1)

findLightSource(v, x, y) == FirstIndexOf(v.basis.pointLightSourcePosition, <<x, y>>, 1)

\* defined when the subdivision holds a site; on an empty subdivision
\* findNearest raises (see numberOfPixelsPerVoronoiCell)
findNearestLightSource(v, x, y) ==
    LET result == NearestSite(v.sites, x, y)
    IN  findLightSource(v, result[1], result[2])

\* as findImageNumber, the raw cell number being taken as the image number
findImageNumber_cellNumber(v, cellNumber) == cellNumber

\* the loops keep the last k whose group holds cellNumber
findImageNumber(v, cellNumber) ==
    LET hits == {k \in 1..Len(v.cells) :
                    \E l \in 1..Len(v.cells[k]) : v.cells[k][l] = cellNumber}
    IN  IF hits = {} THEN -1
        ELSE (CHOOSE k \in hits : \A h \in hits : h <= k) - 1

RECURSIVE CountPixels(_, _, _, _)
CountPixels(v, pixels, n, counts) ==
    IF n > Len(pixels) THEN counts
    ELSE LET cellNumber == findNearestLightSource(v, pixels[n][1], pixels[n][2])
         IN  CountPixels(v, pixels, n + 1,
                 IF cellNumber # -1
                 THEN [counts EXCEPT ![cellNumber + 1] = @ + 1]
                 ELSE counts)

\* as numberOfPixelsPerVoronoiCell, the counts not being reset to zero first
numberOfPixelsPerVoronoiCell_noReset(v) ==
    LET old == [k \in 1..v.basis.numberOfPointLights |->
                   IF k <= Len(v.counts) THEN v.counts[k] ELSE 0]
    IN  IF v.w * v.h = 0 THEN [v EXCEPT !.counts = old]
        ELSE IF v.sites = {} THEN [v EXCEPT !.counts = old, !.aborted = TRUE]
        ELSE [v EXCEPT !.counts = CountPixels(v, PixelsColumnMajor(v.w, v.h), 1, old)]

numberOfPixelsPerVoronoiCell(v) ==
    LET zeros == [k \in 1..v.basis.numberOfPointLights |-> 0]
    IN  IF v.w * v.h = 0 THEN [v EXCEPT !.counts = zeros]
        ELSE IF v.sites = {} THEN [v EXCEPT !.counts = zeros, !.aborted = TRUE]
        ELSE [v EXCEPT !.counts = CountPixels(v, PixelsColumnMajor(v.w, v.h), 1, zeros)]

Voronoi_addPointLight(v, lightPosition) ==
    IF LessThanUnsigned(lightPosition[1], v.w) /\ LessThanUnsigned(lightPosition[2], v.h)
    THEN numberOfPixelsPerVoronoiCell(
             [v EXCEPT !.basis = LightingBasis_addPointLight(@, lightPosition),
                       !.sites = @ \cup {lightPosition}])
    ELSE numberOfPixelsPerVoronoiCell(v)

Voronoi_addAreaLight(v, startingPoint, endingPoint) ==
    LET center == Center(startingPoint, endingPoint)
        added == [v EXCEPT !.basis = LightingBasis_addAreaLight(@, startingPoint, endingPoint)]
    IN  IF InBoundingBox(center, v.w, v.h)
        THEN numberOfPixelsPerVoronoiCell([added EXCEPT !.sites = @ \cup {center}])
        ELSE [added EXCEPT !.aborted = TRUE]

\* The loop of setVoronoi: insert point i, then push the group <<i>>.
RECURSIVE InsertAndGroup(_, _, _)
InsertAndGroup(v, points, i) ==
    IF i >= Len(points) THEN v
    ELSE IF ~InBoundingBox(points[i + 1], v.w, v.h) THEN [v EXCEPT !.aborted = TRUE]
    ELSE InsertAndGroup([v EXCEPT !.sites = @ \cup {points[i + 1]},
                                  !.cells = Append(@, <<i>>)],
                        points, i + 1)

Voronoi_setVoronoi(v, pointLightSourcePosition) ==
    LET added == [v EXCEPT !.basis = LightingBasis_addPointLights(@, pointLightSourcePosition)]
        looped == InsertAndGroup(added, pointLightSourcePosition, 0)
    IN  IF looped.aborted THEN looped
        ELSE IF Len(pointLightSourcePosition) # 0 THEN numberOfPixelsPerVoronoiCell(looped)
        ELSE looped

Voronoi_setVoronoiCells(v, pointLightSourcePosition, cellNumberPerPicture) ==
    LET added == [v EXCEPT !.basis = LightingBasis_addPointLights(@, pointLightSourcePosition),
                           !.cells = cellNumberPerPicture]
        looped == InsertAndGroup(added, pointLightSourcePosition, 0)
    IN  IF looped.aborted THEN looped
        ELSE IF Len(pointLightSourcePosition) # 0 THEN numberOfPixelsPerVoronoiCell(looped)
        ELSE looped

\* as clearVoronoi, the groups of the cells being kept
Voronoi_clearVoronoi_keepsCells(v) ==
    [v EXCEPT !.basis = LightingBasis_clearBasis(@), !.counts = <<>>, !.sites = {},
              !.intensity = <<>>, !.weights = <<>>]

Voronoi_clearVoronoi(v) ==
    [v EXCEPT !.basis = LightingBasis_clearBasis(@), !.counts = <<>>, !.sites = {},
              !.cells = <<>>, !.intensity = <<>>, !.weights = <<>>]

Voronoi_setEnvironmentMapSize(v, width, height) ==
    [v EXCEPT !.w = width, !.h = height, !.sites = {}]

Voronoi_setCellNumberPerPicture(v, cellNumberPerPicture) ==
    [v EXCEPT !.cells = cellNumberPerPicture]

Voronoi_clearWeights(v) == [v EXCEPT !.intensity = <<>>, !.weights = <<>>]

\* as saveVoronoi, a group without cells writing no line
Voronoi_saveVoronoi_noEmptyLine(v) ==
    LET groups == SelectSeq(v.cells, LAMBDA group : group # <<>>)
    IN  [i \in 1..Len(groups) |-> <<Len(groups[i])>> \o groups[i]]

\* saveVoronoi writes to voronoi.txt one line per group: its size, then its
\* cell numbers, separated by spaces.  A line is the sequence of its
\* integers.
Voronoi_saveVoronoi(v) ==
    [i \in 1..Len(v.cells) |-> <<Len(v.cells[i])>> \o v.cells[i]]

\* the words of the file as file >> word reads them, from line i on
RECURSIVE FileWords(_, _)
FileWords(lines, i) ==
    IF i > Len(lines) THEN <<>> ELSE lines[i] \o FileWords(lines, i + 1)

\* the loop on i of loadVoronoi: file >> value leaves value as it was when
\* the file has no word left
RECURSIVE ReadCellNumbers(_, _, _, _, _)
ReadCellNumbers(words, next, i, size, read) ==
    IF i >= size THEN [read EXCEPT !.next = next]
    ELSE LET value == IF next <= Len(words) THEN words[next] ELSE read.value
         IN  ReadCellNumbers(words, IF next <= Len(words) THEN next + 1 ELSE next, i + 1, size,
                             [read EXCEPT !.value = value,
                                          !.cellNumbers = Append(@, value)])

\* the loop while(file >> sizeString) of loadVoronoi
RECURSIVE ReadGroups(_, _, _, _)
ReadGroups(words, next, value, cellNumberPerPicture) ==
    IF next > Len(words) THEN cellNumberPerPicture
    ELSE LET read == ReadCellNumbers(words, next + 1, 0, words[next],
                                     [value |-> value, cellNumbers |-> <<>>, next |-> next + 1])
         IN  ReadGroups(words, read.next, read.value,
                        Append(cellNumberPerPicture, read.cellNumbers))

\* loadVoronoi: loadBasis, setVoronoi on the positions of the basis, then
\* the groups of voronoi.txt if the file can be opened
Voronoi_loadVoronoi(v, basisLines, file) ==
    LET loaded == [v EXCEPT !.basis = LightingBasis_loadBasis(@, basisLines)]
        pointLightSources == loaded.basis.pointLightSourcePosition
        set == Voronoi_setVoronoi(loaded, pointLightSources)
    IN  IF set.aborted \/ ~file.exists THEN set
        ELSE Voronoi_setCellNumberPerPicture(set, ReadGroups(FileWords(file.lines, 1), 1, 0, <<>>))

(***************************************************************************)
(* OfficeRoomRelighting: strategies that identify the light sources.  They *)
(* run in relighting() on the Voronoi that setRelighting() has cleared.    *)
(***************************************************************************)
\* An image of a lighting condition gives every pixel <<x, y>> its energy
\* R+G+B.  MedianPixel is the scan of identifyMedianEnergy: the first pixel in
\* row-major order whose running sum exceeds half of the total, <<>> if none.
RECURSIVE TotalEnergy(_, _, _)
TotalEnergy(image, pixels, n) ==
    IF n > Len(pixels) THEN 0 ELSE image[pixels[n]] + TotalEnergy(image, pixels, n + 1)

RECURSIVE ScanMedian(_, _, _, _, _)
ScanMedian(image, pixels, n, sumEnergy, totalEnergy) ==
    IF n > Len(pixels) THEN <<>>
    ELSE IF 2 * (sumEnergy + image[pixels[n]]) > totalEnergy THEN pixels[n]
    ELSE ScanMedian(image, pixels, n + 1, sumEnergy + image[pixels[n]], totalEnergy)

MedianPixel(image, width, height) ==
    LET pixels == PixelsRowMajor(width, height)
    IN  ScanMedian(image, pixels, 1, 0, TotalEnergy(image, pixels, 1))

\* The loop on the lighting conditions k of identifyMedianEnergy: the Voronoi
\* after conditions k.. have been handled.
RECURSIVE MedianLoop(_, _, _)
MedianLoop(v, images, k) ==
    IF k > Len(images) \/ v.aborted THEN v
    ELSE LET pixel == MedianPixel(images[k], v.w, v.h)
         IN  MedianLoop(IF pixel = <<>> THEN v ELSE Voronoi_addPointLight(v, pixel),
                        images, k + 1)

\* cellNumber is pushed and incremented for every condition, whether or not
\* a point light was added for it.
identifyMedianEnergy(v, images) ==
    LET looped == MedianLoop(v, images, 1)
    IN  IF looped.aborted THEN looped
        ELSE Voronoi_setCellNumberPerPicture(looped, [k \in 1..Len(images) |-> <<k - 1>>])

\* numberOfClusters in identifyLightsAutomatically, for condition i (from 0)
numberOfClusters(i) == IF i = 5 \/ i = 6 THEN 2 ELSE 1

\* The loop "for k < centers.rows" for one condition; a centre is <<row, col>>.
\* Returns the Voronoi and the cell numbers pushed for the condition.
RECURSIVE CentersLoop(_, _, _, _, _)
CentersLoop(v, centers, k, cellNumber, cellsForImagei) ==
    IF k > Len(centers) \/ v.aborted THEN <<v, cellsForImagei>>
    ELSE CentersLoop(
             IF centers[k][1] < 511 /\ centers[k][2] < 1023
             THEN Voronoi_addPointLight(v, <<centers[k][2], centers[k][1]>>)
             ELSE v,
             centers, k + 1, cellNumber + 1, Append(cellsForImagei, cellNumber))

\* The loop on the lighting conditions: allCenters[i + 1] holds the centres
\* k-means returned for condition i.
RECURSIVE ConditionsLoop(_, _, _, _, _)
ConditionsLoop(v, allCenters, i, cellNumber, cellNumberPerPicture) ==
    IF i > Len(allCenters) \/ v.aborted THEN <<v, cellNumberPerPicture>>
    ELSE LET r == CentersLoop(v, allCenters[i], 1, cellNumber, <<>>)
         IN  ConditionsLoop(r[1], allCenters, i + 1, cellNumber + Len(allCenters[i]),
                            Append(cellNumberPerPicture, r[2]))

identifyLightsAutomatically(v, allCenters) ==
    LET r == ConditionsLoop(v, allCenters, 1, 0, <<>>)
    IN  IF r[1].aborted THEN r[1]
        ELSE Voronoi_setCellNumberPerPicture(r[1], r[2])

(***************************************************************************)
(* Integration of the environment map.  A float is <<n>> for the number n  *)
(* and <<>> for not-a-number; a pixel of the map is <<R, G, B>>.  An       *)
(* offset is <<num, den>> for the angle 2*pi*num/den.  sin is tabulated in *)
(* thousandths, so a weight is a number of thousandths.                    *)
(***************************************************************************)
NaN == <<>>

Float(n) == <<n>>

isnan(a) == a = NaN

FloatAdd(a, b) == IF isnan(a) \/ isnan(b) THEN NaN ELSE Float(a[1] + b[1])

FloatTimes(a, n) == IF isnan(a) THEN NaN ELSE Float(a[1] * n)

\* 1000 * sin(i * pi / height), rounded, for the heights the model uses
SinTimes1000(i, height) ==
    CASE height = 1 -> <<0>>[i + 1]
      [] height = 2 -> <<0, 1000>>[i + 1]
      [] height = 3 -> <<0, 866, 866>>[i + 1]
      [] height = 4 -> <<0, 707, 1000, 707>>[i + 1]

\* vector<float> weightsImageK(3, 0.0)
weightsImageK == <<Float(0), Float(0), Float(0)>>

RECURSIVE Pow2Mod(_, _)
Pow2Mod(e, m) == IF e = 0 THEN 1 % m ELSE (2 * Pow2Mod(e - 1, m)) % m

\* floor(offset * width / (2 * pi))
jOffsetOf(offset, width) == (offset[1] * width) \div offset[2]

\* (j + jOffset) % width with j and width unsigned int: jOffset is converted
\* to unsigned, the sum wraps modulo 2^32 and only then is reduced.
jModulusOf(j, jOffset, width) ==
    IF j + jOffset >= 0 THEN (j + jOffset) % width
    ELSE (((j + jOffset) % width) + Pow2Mod(32, width)) % width

\* the three "+=" on the accumulators of one image for the pixel <<R, G, B>>
\* read in row i (a write outside of the vector is left to WritesOutsideOR)
Accumulate(weights, imageNumber, pixel, i, height) ==
    IF ~(isnan(pixel[1]) /\ isnan(pixel[2]) /\ isnan(pixel[3]))
       /\ imageNumber + 1 \in DOMAIN weights
    THEN [weights EXCEPT ![imageNumber + 1] =
             [c \in 1..3 |-> FloatAdd(@[c], FloatTimes(pixel[c], SinTimes1000(i, height)))]]
    ELSE weights

\* the loops on the pixels of computeVoronoiWeightsOR, from pixel n on
RECURSIVE WeightsLoopOR(_, _, _, _, _, _)
WeightsLoopOR(v, environmentMap, jOffset, pixels, n, weights) ==
    IF n > Len(pixels) THEN weights
    ELSE LET j == pixels[n][1]
             i == pixels[n][2]
             cellNumber == findNearestLightSource(v, j, i)
             jModulus == jModulusOf(j, jOffset, v.w)
         IN  WeightsLoopOR(v, environmentMap, jOffset, pixels, n + 1,
                 IF cellNumber # -1
                 THEN Accumulate(weights, findImageNumber(v, cellNumber),
                                 environmentMap[<<jModulus, i>>], i, v.h)
                 ELSE weights)

\* as computeVoronoiWeightsOR, the counts of the pixels being set to zero
computeVoronoiWeightsOR_counts(v, environmentMap, offset) ==
    LET initialised == v.weights \o [k \in 1..Len(v.cells) |-> weightsImageK]
    IN  IF v.w * v.h = 0 THEN [v EXCEPT !.weights = initialised]
        ELSE IF v.sites = {} THEN [v EXCEPT !.weights = initialised, !.aborted = TRUE]
        ELSE [v EXCEPT !.counts = [k \in DOMAIN v.counts |-> 0],
                       !.weights =
                 WeightsLoopOR(v, environmentMap, jOffsetOf(offset, v.w),
                               PixelsRowMajor(v.w, v.h), 1, initialised)]

\* The accumulators are pushed behind the weights that are already there;
\* findNearest raises on an empty subdivision.
computeVoronoiWeightsOR(v, environmentMap, offset) ==
    LET initialised == v.weights \o [k \in 1..Len(v.cells) |-> weightsImageK]
    IN  IF v.w * v.h = 0 THEN [v EXCEPT !.weights = initialised]
        ELSE IF v.sites = {} THEN [v EXCEPT !.weights = initialised, !.aborted = TRUE]
        ELSE [v EXCEPT !.weights =
                 WeightsLoopOR(v, environmentMap, jOffsetOf(offset, v.w),
                               PixelsRowMajor(v.w, v.h), 1, initialised)]

\* Some pixel is accumulated with an image number that is no index of
\* m_rgbWeights (-1 when no group holds the cell): the "+=" write outside
\* of the vector, which is undefined behaviour.
WritesOutsideOR(v, environmentMap, offset) ==
    /\ v.w * v.h # 0 /\ v.sites # {}
    /\ \E i \in 0..(v.h - 1), j \in 0..(v.w - 1) :
        LET cellNumber == findNearestLightSource(v, j, i)
            pixel == environmentMap[<<jModulusOf(j, jOffsetOf(offset, v.w), v.w), i>>]
        IN  /\ cellNumber # -1
            /\ ~(isnan(pixel[1]) /\ isnan(pixel[2]) /\ isnan(pixel[3]))
            /\ findImageNumber(v, cellNumber) \notin 0..(Len(v.weights) + Len(v.cells) - 1)

\* what the build may make of the writes outside of the vector: nothing
\* visible, a crash, or other weights overwritten
UndefinedOutcomesOR(computed) ==
    {computed, [computed EXCEPT !.aborted = TRUE],
     [computed EXCEPT !.weights = [k \in DOMAIN computed.weights |-> weightsImageK]]}

\* as IsSelected, one channel below the threshold being enough
IsSelected_anyChannel(maskPixel) ==
    maskPixel[1] < 127 \/ maskPixel[2] < 127 \/ maskPixel[3] < 127

\* RMask < 127.0 && GMask < 127.0 && BMask < 127.0
IsSelected(maskPixel) == maskPixel[1] < 127 /\ maskPixel[2] < 127 /\ maskPixel[3] < 127

\* the mask file read for condition k (from 0)
currentMaskOf(maskFiles, k, indirectLightPicture) ==
    IF k # indirectLightPicture THEN maskFiles.condition_mask[k + 1]
    ELSE maskFiles.residualMask

\* the loops on the pixels of computeWeightsMasks for condition k
RECURSIVE MaskPixelsLoop(_, _, _, _, _, _, _, _, _)
MaskPixelsLoop(rgbWeights, k, currentMask, environmentMap, jOffset, pixels, n, width, height) ==
    IF n > Len(pixels) THEN rgbWeights
    ELSE LET j == pixels[n][1]
             i == pixels[n][2]
             jModulus == jModulusOf(j, jOffset, width)
         IN  MaskPixelsLoop(
                 IF IsSelected(currentMask[<<j, i>>])
                 THEN Accumulate(rgbWeights, k, environmentMap[<<jModulus, i>>], i, height)
                 ELSE rgbWeights,
                 k, currentMask, environmentMap, jOffset, pixels, n + 1, width, height)

\* the loop on the lighting conditions of computeWeightsMasks
RECURSIVE MaskConditionsLoop(_, _, _, _, _, _, _, _, _)
MaskConditionsLoop(rgbWeights, k, numberOfLightingConditions, maskFiles, indirectLightPicture, environmentMap, jOffset, width, height) ==
    IF k >= numberOfLightingConditions THEN rgbWeights
    ELSE MaskConditionsLoop(
             MaskPixelsLoop(rgbWeights, k, currentMaskOf(maskFiles, k, indirectLightPicture),
                            environmentMap, jOffset, PixelsRowMajor(width, height), 1,
                            width, height),
             k + 1, numberOfLightingConditions, maskFiles, indirectLightPicture,
             environmentMap, jOffset, width, height)

computeWeightsMasks(environmentMap, offset, maskFiles, numberOfLightingConditions, indirectLightPicture, width, height) ==
    MaskConditionsLoop([k \in 1..numberOfLightingConditions |-> weightsImageK], 0,
                       numberOfLightingConditions, maskFiles, indirectLightPicture,
                       environmentMap, jOffsetOf(offset, width), width, height)

\* moduloRealNumber(offset, 2 * pi)
moduloRealNumber(offset) ==
    LET quotient == offset[1] \div offset[2]
    IN  <<offset[1] - quotient * offset[2], offset[2]>>

rotateLatLongMap(originalMap, offset, width, height) ==
    LET jOffset == jOffsetOf(moduloRealNumber(offset), width)
    IN  [px \in (0..(width - 1)) \X (0..(height - 1)) |->
            originalMap[<<(px[1] + jOffset) % width, px[2]>>]]

(***************************************************************************)
(* Optimisation.  The objective functions read the static variables of     *)
(* optimisation.cpp, which the constructor of every Optimisation object    *)
(* sets.  An object and the static variables are records with the fields   *)
(* below; environmentMapName holds the content of the map file that the    *)
(* name designates and masksType the mask files that room type and masks   *)
(* type designate.  A multiplier is an integer, the box [0, 10] the        *)
(* integers 0..10.                                                         *)
(***************************************************************************)
\* the static variables before any Optimisation object is constructed
StaticGlobals ==
    [environmentMapName |-> <<>>, environmentMapWidth |-> 0, environmentMapHeight |-> 0,
     numberOflightingConditions |-> 0, indirectLightPicture |-> 0, offset |-> <<0, 1>>,
     masksType |-> [condition_mask |-> <<>>, residualMask |-> <<>>], rgbWeights |-> <<>>]

\* Optimisation::Optimisation(environmentMapName, ..., rgbWeights): the
\* members of the object
Optimisation(environmentMapName, environmentMapWidth, environmentMapHeight, numberOfLightingConditions, indirectLightPicture, offset, masksType, rgbWeights) ==
    [environmentMapName |-> environmentMapName, environmentMapWidth |-> environmentMapWidth,
     environmentMapHeight |-> environmentMapHeight,
     numberOflightingConditions |-> numberOfLightingConditions,
     indirectLightPicture |-> indirectLightPicture, offset |-> offset,
     masksType |-> masksType, rgbWeights |-> rgbWeights]

\* setGlobalVariables: the static variables take the members of the object
setGlobalVariables(o) == o

\* the pixels <<j, i>> that functionToOptimise adds to the result for the
\* variable k (from 0): selected by the mask of k, not not-a-number in all
\* channels of the map
ObjectivePixels(g, k) ==
    {px \in (0..(g.environmentMapWidth - 1)) \X (0..(g.environmentMapHeight - 1)) :
        /\ IsSelected(currentMaskOf(g.masksType, k, g.indirectLightPicture)[px])
        /\ LET pixel == g.environmentMapName[<<jModulusOf(px[1],
                            jOffsetOf(g.offset, g.environmentMapWidth),
                            g.environmentMapWidth), px[2]>>]
           IN  ~(isnan(pixel[1]) /\ isnan(pixel[2]) /\ isnan(pixel[3]))}

\* 3 * intensityEnvMap of the pixel: (R + G + B) with R, G, B the channels
\* times the sine of the row
intensityEnvMap(g, px) ==
    LET pixel == g.environmentMapName[<<jModulusOf(px[1],
                     jOffsetOf(g.offset, g.environmentMapWidth),
                     g.environmentMapWidth), px[2]>>]
        sine == SinTimes1000(px[2], g.environmentMapHeight)
    IN  FloatAdd(FloatAdd(FloatTimes(pixel[1], sine), FloatTimes(pixel[2], sine)),
                 FloatTimes(pixel[3], sine))

\* 3 * intensityWeights of the variable k
intensityWeights(g, k) ==
    FloatAdd(FloatAdd(g.rgbWeights[k + 1][1], g.rgbWeights[k + 1][2]), g.rgbWeights[k + 1][3])

RECURSIVE SumIntensityEnvMap(_, _)
SumIntensityEnvMap(g, S) ==
    IF S = {} THEN 0
    ELSE LET px == CHOOSE p \in S : TRUE
         IN  intensityEnvMap(g, px)[1] + SumIntensityEnvMap(g, S \ {px})

\* functionToOptimise reads a weight or a mask that does not exist (the
\* static variables are those of an object with fewer lighting conditions)
\* or a map that has no pixel
ReadsOutside(g, numberOfVariables) ==
    \/ numberOfVariables > Len(g.rgbWeights)
    \/ numberOfVariables > Len(g.masksType.condition_mask)
    \/ g.environmentMapName = <<>>

\* the value of functionToOptimise is not-a-number whatever the variables
IsNaNObjective(g, numberOfVariables) ==
    \E k \in 0..(numberOfVariables - 1) :
        /\ ObjectivePixels(g, k) # {}
        /\ \/ isnan(intensityWeights(g, k))
           \/ \E px \in ObjectivePixels(g, k) : isnan(intensityEnvMap(g, px))

Clamp(x, lower, upper) == IF x < lower THEN lower ELSE IF x > upper THEN upper ELSE x

\* The result is sqrt(sum over k and over the pixels px of k of
\* (variables[k] * intensityWeights(k) - intensityEnvMap(px))^2): each
\* variable has its own term, least at the mean of intensityEnvMap over the
\* pixels of k divided by intensityWeights(k).  The minimiser in the box is
\* that value, rounded to the grid and clamped; a variable on which the
\* result does not depend keeps its clamped starting value.
Minimiser(g, k, start, lower, upper) ==
    LET pixels == ObjectivePixels(g, k)
        weight == intensityWeights(g, k)[1] * Cardinality(pixels)
        target == SumIntensityEnvMap(g, pixels)
    IN  IF weight <= 0 THEN Clamp(start, lower, upper)
        ELSE Clamp((2 * target + weight) \div (2 * weight), lower, upper)

\* the points of the box that stand for any of them: two of its corners
BoxSamples(numberOfVariables, lower, upper) ==
    {[i \in 1..numberOfVariables |-> x] : x \in {lower, upper}}

\* dlib::find_min_box_constrained on functionToOptimise, by its contract:
\* the minimiser within the bounds.  When the function reads outside of its
\* data or is not-a-number the call may return any point of the box or
\* raise.
find_min_box_constrained(g, startingPoint, lower, upper) ==
    IF ReadsOutside(g, Len(startingPoint)) \/ IsNaNObjective(g, Len(startingPoint))
    THEN {[raised |-> FALSE, startingPoint |-> x] :
             x \in BoxSamples(Len(startingPoint), lower, upper)}
         \cup {[raised |-> TRUE, startingPoint |-> startingPoint]}
    ELSE {[raised |-> FALSE,
           startingPoint |-> [i \in 1..Len(startingPoint) |->
                                 Minimiser(g, i - 1, startingPoint[i], lower, upper)]]}

\* dlib::find_min_box_constrained on functionToOptimisePCASpace.  The
\* projection of the objective is not computed here, and the matrices it is
\* made from are read where no mask has written them: any point of the box
\* stands for the result.
find_min_box_constrained_PCA(g, startingPoint, lower, upper) ==
    {[raised |-> FALSE, startingPoint |-> x] :
        x \in BoxSamples(Len(startingPoint), lower, upper)}
    \cup (IF ReadsOutside(g, Len(startingPoint))
          THEN {[raised |-> TRUE, startingPoint |-> startingPoint]} ELSE {})

\* m_rgbWeights[i][j] *= startingPoint(i)
ScaleWeights(rgbWeights, startingPoint) ==
    [i \in 1..Len(rgbWeights) |->
        [j \in 1..3 |-> FloatTimes(rgbWeights[i][j], startingPoint[i])]]

\* the outcome of an optimisation on the object o: the object, the array of
\* the caller, the point found, and whether an exception has left the call
OptimisationOutcome(o, initialPoint, found, returned) ==
    IF found.raised
    THEN [object |-> o, startingPointArray |-> initialPoint,
          multipliers |-> <<>>, raised |-> TRUE]
    ELSE [object |-> [o EXCEPT !.rgbWeights = ScaleWeights(@, found.startingPoint)],
          startingPointArray |-> returned, multipliers |-> found.startingPoint,
          raised |-> FALSE]

\* as environmentMapOptimisation, the bounds being 0.0 and 100.0
environmentMapOptimisation_bounds(o, g, initialPoint) ==
    {OptimisationOutcome(o, initialPoint, found, found.startingPoint) :
        found \in find_min_box_constrained(g, initialPoint, 0, 100)}

\* as environmentMapOptimisation, the array being set to 1.0 at the end
environmentMapOptimisation_ones(o, g, initialPoint) ==
    {OptimisationOutcome(o, initialPoint, found,
                         [i \in 1..Len(initialPoint) |-> 1]) :
        found \in find_min_box_constrained(g, initialPoint, 0, 10)}

\* Optimisation::environmentMapOptimisation on the object o, the static
\* variables being g: the set of its outcomes
environmentMapOptimisation(o, g, initialPoint) ==
    {OptimisationOutcome(o, initialPoint, found, found.startingPoint) :
        found \in find_min_box_constrained(g, initialPoint, 0, 10)}

\* Optimisation::environmentMapPCAOptimisation: the next optimisation
\* starts with 1.0
environmentMapPCAOptimisation(o, g, initialPoint) ==
    {OptimisationOutcome(o, initialPoint, found,
                         [i \in 1..Len(initialPoint) |-> 1]) :
        found \in find_min_box_constrained_PCA(g, initialPoint, 0, 10)}

(***************************************************************************)
(* State                                                                   *)
(***************************************************************************)
\* the Voronoi object as a record, and back
V == [basis |-> m_basis, counts |-> m_numberOfPixelsInVoronoiCell,
      sites |-> m_voronoiSubdivision, cells |-> m_cellNumberPerPicture,
      weights |-> m_rgbWeights, intensity |-> m_intensity, w |-> m_envMapWidth,
      h |-> m_envMapHeight, aborted |-> aborted]

SetV(v) ==
    /\ m_basis' = v.basis
    /\ m_numberOfPixelsInVoronoiCell' = v.counts
    /\ m_voronoiSubdivision' = v.sites
    /\ m_cellNumberPerPicture' = v.cells
    /\ m_rgbWeights' = v.weights
    /\ m_intensity' = v.intensity
    /\ m_envMapWidth' = v.w
    /\ m_envMapHeight' = v.h
    /\ aborted' = v.aborted

\* Voronoi::Voronoi(), then setEnvironmentMapSize as relighting() calls it
Voronoi(width, height) ==
    [basis |-> LightingBasis, counts |-> <<>>, sites |-> {}, cells |-> <<>>,
     weights |-> <<>>, intensity |-> <<>>, w |-> width, h |-> height, aborted |-> FALSE]

\* true of the Voronoi that clearVoronoi leaves
IsCleared(v) ==
    v.basis = LightingBasis /\ v.counts = <<>> /\ v.sites = {} /\ v.cells = <<>>

\* relighting() has not read its files; the content of a file that does
\* not exist is <<>>, as is a cv::Mat without data
\* MouseParameters mouseParameters as relighting() sets it: the points are
\* Point2i()
MouseParameters ==
    [startingPoint |-> <<0, 0>>, endingPoint |-> <<0, 0>>, isPressed |-> FALSE,
     numberOfLightSourcesAdded |-> 0]

\* the office-room tab as buildWindow leaves it, before the signals are
\* connected: the first object, 9 lighting conditions in 1..1000, the dark
\* room picture 4 in 0..9
MainWindow_buildWindow ==
    [object |-> "Bird",
     numberOfLightingConditionsOR |-> [minimum |-> 1, maximum |-> 1000, value |-> 9],
     indirectLightPictureOR |-> [minimum |-> 0, maximum |-> 9, value |-> 4]]

\* voronoi.txt before any saveVoronoi
NoVoronoiFile == [exists |-> FALSE, lines |-> <<>>, saved |-> <<>>]

NoFiles == [read |-> FALSE, environmentMap |-> <<>>, images |-> <<>>, mask |-> <<>>]

Init ==
    /\ basis = LightingBasis
    /\ basisFile = <<>>
    /\ voronoiFile = NoVoronoiFile
    /\ m_basis = LightingBasis
    /\ m_numberOfPixelsInVoronoiCell = <<>>
    /\ m_voronoiSubdivision = {}
    /\ m_cellNumberPerPicture = <<>>
    /\ m_rgbWeights = <<>>
    /\ m_intensity = <<>>
    /\ m_envMapWidth = InitWidth
    /\ m_envMapHeight = InitHeight
    /\ aborted = FALSE
    /\ lastCall = [op |-> "Voronoi"]
    /\ m_environmentMap = <<>>
    /\ lastOffset = <<0, 1>>
    /\ m_masks = [condition_mask |-> <<>>, residualMask |-> <<>>]
    /\ m_indirectLightPicture = 4
    /\ m_weightsRGB = <<>>
    /\ m_lightType = ""
    /\ m_optimisationMethod = "Disabled"
    /\ startingPointArray = <<>>
    /\ optimisationGlobals = StaticGlobals
    /\ optimisations = <<>>
    /\ optimised = [run |-> 0]
    /\ files = NoFiles
    /\ m_reflectanceField = <<>>
    /\ m_objectMask = <<>>
    /\ cerr = <<>>
    /\ runs = 0
    /\ mouseParameters = MouseParameters
    /\ manualSelection = [active |-> FALSE]
    /\ window = MainWindow_buildWindow
    /\ masksOfRun = [set |-> FALSE]

(***************************************************************************)
(* Inputs                                                                  *)
(***************************************************************************)
\* positions handed to the Voronoi: inside every map, inside the first map
\* only, left of every map
LightPositions == {<<0, 0>>, <<InitWidth - 1, InitHeight - 1>>, <<-1, 0>>}

\* rectangles handed to the Voronoi: one that covers the first map, one
\* outside of every map
AreaLights ==
    {<< <<0, 0>>, <<InitWidth - 1, InitHeight - 1>> >>, << <<-1, 0>>, <<-1, 0>> >>}

\* point lists: the two positions inside the map in turn, one position
\* twice, and one list with a position outside
PointLists ==
    {[i \in 1..n |-> IF (i + first) % 2 = 0 THEN <<0, 0>> ELSE <<InitWidth - 1, InitHeight - 1>>] :
        n \in 0..MaxBatch, first \in 0..1}
        \cup {<< <<0, 0>>, <<0, 0>> >>, << <<-1, 0>> >>}

\* groupings a caller of the second setVoronoi passes for its n points
CellLists(n) ==
    IF n = 0 THEN {<<>>}
    ELSE IF n = 1 THEN {<< <<0>> >>}
    ELSE {<< [i \in 1..n |-> i - 1] >>, [i \in 1..n |-> <<i - 1>>]}

Sizes == {<<InitWidth, InitHeight>>, <<InitWidth - 1, InitHeight - 1>>}

ConditionCounts == (1..MaxConditions) \cup {ManyConditions}

\* images of a lighting condition: no energy at all, the same energy
\* everywhere, energy in the last pixel only
ImagePatterns == {"dark", "uniform", "last"}

ConditionImage(pattern, width, height) ==
    [p \in (0..(width - 1)) \X (0..(height - 1)) |->
        IF pattern = "dark" THEN 0
        ELSE IF pattern = "uniform" THEN 3
        ELSE IF p = <<width - 1, height - 1>> THEN 3 ELSE 0]

\* centres <<row, col>> k-means may return: two inside the first map, one
\* that the test against 511 and 1023 discards
CenterChoices == {<<0, 0>>, <<InitHeight - 1, InitWidth - 1>>, <<600, 0>>}

\* one pattern per condition; in the long run the conditions up to 4 share
\* one pattern and so do the others
PatternLists(n) ==
    IF n <= MaxConditions THEN [1..n -> ImagePatterns]
    ELSE {[k \in 1..n |-> IF k <= 5 THEN a ELSE b] : a \in ImagePatterns, b \in ImagePatterns}

\* one list of centres per condition, numberOfClusters(i) centres for
\* condition i; a condition with a single cluster gets <<0, 0>> or the
\* discarded centre, and in the long run all of them get the same
CenterLists(n) ==
    LET two == {i \in 1..n : numberOfClusters(i - 1) = 2}
        single == CenterChoices \ {<<InitHeight - 1, InitWidth - 1>>}
    IN  {[i \in 1..n |-> IF i \in two THEN <<c1[i], c2[i]>> ELSE <<c1[i]>>] :
            c1 \in {f \in [1..n -> CenterChoices] :
                       /\ \A i \in (1..n) \ two : f[i] \in single
                       /\ n > MaxConditions =>
                              \A i \in (1..n) \ two : f[i] = f[1]},
            c2 \in [two -> CenterChoices]}

(***************************************************************************)
(* Operations on the Voronoi                                               *)
(***************************************************************************)
CanGrow == Len(m_basis.pointLightSourcePosition) < MaxPointLights

AddPointLight ==
    /\ ~aborted /\ CanGrow
    /\ \E p \in LightPositions :
        /\ SetV(Voronoi_addPointLight(V, p))
        /\ lastCall' = [op |-> "addPointLight", arg |-> p]
    /\ UNCHANGED <<basisVars, sessionVars, relightingVars, runVars>>

AddAreaLight ==
    /\ ~aborted /\ CanGrow /\ Len(m_basis.rectanglesAreaLights) < MaxAreaLights
    /\ \E r \in AreaLights :
        /\ SetV(Voronoi_addAreaLight(V, r[1], r[2]))
        /\ lastCall' = [op |-> "addAreaLight"]
    /\ UNCHANGED <<basisVars, sessionVars, relightingVars, runVars>>

SetVoronoi ==
    /\ ~aborted
    /\ \E points \in PointLists :
        /\ Len(m_basis.pointLightSourcePosition) + Len(points) <= MaxPointLights
        /\ SetV(Voronoi_setVoronoi(V, points))
        /\ lastCall' = [op |-> "setVoronoi"]
    /\ UNCHANGED <<basisVars, sessionVars, relightingVars, runVars>>

SetVoronoiCells ==
    /\ ~aborted
    /\ \E points \in PointLists : \E cellNumberPerPicture \in CellLists(Len(points)) :
        /\ Len(m_basis.pointLightSourcePosition) + Len(points) <= MaxPointLights
        /\ SetV(Voronoi_setVoronoiCells(V, points, cellNumberPerPicture))
        /\ lastCall' = [op |-> "setVoronoiCells"]
    /\ UNCHANGED <<basisVars, sessionVars, relightingVars, runVars>>

\* the Voronoi holds lights, a rectangle, counts, groups, intensities,
\* weights and sites
IsPopulated(v) ==
    /\ v.basis.pointLightSourcePosition # <<>> /\ v.basis.rectanglesAreaLights # <<>>
    /\ v.counts # <<>> /\ v.cells # <<>> /\ v.intensity # <<>> /\ v.weights # <<>>
    /\ v.sites # {}

ClearVoronoi ==
    /\ ~aborted
    /\ SetV(Voronoi_clearVoronoi(V))
    /\ lastCall' = [op |-> "clearVoronoi", populated |-> IsPopulated(V)]
    /\ UNCHANGED <<basisVars, sessionVars, relightingVars, runVars>>

NumberOfPixelsPerVoronoiCell ==
    /\ ~aborted
    /\ SetV(numberOfPixelsPerVoronoiCell(V))
    /\ lastCall' = [op |-> "numberOfPixelsPerVoronoiCell"]
    /\ UNCHANGED <<basisVars, sessionVars, relightingVars, runVars>>

SetEnvironmentMapSize ==
    /\ ~aborted
    /\ \E size \in Sizes :
        /\ SetV(Voronoi_setEnvironmentMapSize(V, size[1], size[2]))
        /\ lastCall' = [op |-> "setEnvironmentMapSize"]
    /\ UNCHANGED <<basisVars, sessionVars, relightingVars, runVars>>

IdentifyMedianEnergy ==
    /\ ~aborted /\ IsCleared(V) /\ m_lightType = ""
    /\ \E n \in ConditionCounts : \E patterns \in PatternLists(n) :
        /\ SetV(identifyMedianEnergy(V,
               [k \in 1..n |-> ConditionImage(patterns[k], m_envMapWidth, m_envMapHeight)]))
        /\ lastCall' = [op |-> "identifyMedianEnergy", arg |-> patterns]
    /\ UNCHANGED <<basisVars, sessionVars, relightingVars, runVars>>

IdentifyLightsAutomatically ==
    /\ ~aborted /\ IsCleared(V) /\ m_lightType = ""
    /\ \E n \in ConditionCounts : \E allCenters \in CenterLists(n) :
        /\ SetV(identifyLightsAutomatically(V, allCenters))
        /\ lastCall' = [op |-> "identifyLightsAutomatically"]
    /\ UNCHANGED <<basisVars, sessionVars, relightingVars, runVars>>

Next ==
    \/ AddPointLight
    \/ AddAreaLight
    \/ SetVoronoi
    \/ SetVoronoiCells
    \/ ClearVoronoi
    \/ NumberOfPixelsPerVoronoiCell
    \/ SetEnvironmentMapSize
    \/ IdentifyMedianEnergy
    \/ IdentifyLightsAutomatically

Spec == Init /\ [][Next]_vars

(***************************************************************************)
(* Office room: the integration passes of relighting().  Only the first    *)
(* run of relighting() on the object is followed: the strategy that        *)
(* identifies the lights runs before the first pass; with the masks no     *)
(* strategy runs and the Voronoi stays as setRelighting() cleared it.      *)
(***************************************************************************)
MapPatterns == {"ramp", "nanPixel", "nanChannel"}

\* R tells the column and G the row; one pixel of the last row is
\* not-a-number in all channels ("nanPixel") or in R only ("nanChannel")
EnvironmentMapOf(pattern, width, height) ==
    [px \in (0..(width - 1)) \X (0..(height - 1)) |->
        IF pattern = "nanPixel" /\ px = <<0, height - 1>> THEN <<NaN, NaN, NaN>>
        ELSE IF pattern = "nanChannel" /\ px = <<0, height - 1>>
        THEN <<NaN, Float(px[2] + 1), Float(1)>>
        ELSE <<Float(px[1] + 1), Float(px[2] + 1), Float(1)>>]

EnvironmentMaps == {EnvironmentMapOf(p, m_envMapWidth, m_envMapHeight) : p \in MapPatterns}

\* masks: all black (0), all white (1), first column black (2), and one
\* whose columns are just below the threshold, at the threshold, then black
\* in R and B only (3)
MaskOf(pattern, width, height) ==
    [px \in (0..(width - 1)) \X (0..(height - 1)) |->
        CASE pattern = 0 -> <<0, 0, 0>>
          [] pattern = 1 -> <<255, 255, 255>>
          [] pattern = 2 -> IF px[1] = 0 THEN <<0, 0, 0>> ELSE <<255, 255, 255>>
          [] pattern = 3 -> IF px[1] = 0 THEN <<126, 126, 126>>
                            ELSE IF px[1] = 1 THEN <<127, 127, 127>>
                            ELSE <<0, 255, 0>>]

\* the mask files of n lighting conditions
MaskFileSets(n) ==
    {[condition_mask |-> [k \in 1..n |-> MaskOf((first + k) % 4, m_envMapWidth, m_envMapHeight)],
      residualMask |-> MaskOf((first + 2) % 4, m_envMapWidth, m_envMapHeight)] :
        first \in 0..3}

\* The light type of the run is read for the first time in the loop on the
\* offsets; it is "" until the first turn, which draws it.
IsFirstTurn == m_lightType = ""

\* offset = 2 * l * pi / m_numberOfOffsets in the loop of relighting():
\* <<0, n>> in the first turn, n being m_numberOfOffsets, then the next l
LoopOffsets ==
    IF IsFirstTurn THEN {<<0, n>> : n \in 1..MaxOffsets}
    ELSE IF lastOffset[1] + 1 < lastOffset[2] THEN {<<lastOffset[1] + 1, lastOffset[2]>>}
    ELSE {}

\* the map of the run: loaded before the first turn of the loop
LoopMaps == IF IsFirstTurn /\ ~files.read THEN EnvironmentMaps ELSE {m_environmentMap}

\* offsets passed to computeVoronoiWeightsOR by a caller of the Voronoi
AnyOffsets == {<<-4, 3>>, <<-1, 1>>, <<-1, 3>>, <<1, 3>>, <<5, 3>>}

\* computeVoronoiWeightsOR on the Voronoi v, a write outside of the weights
\* having any of its outcomes
IntegrateOR(v, map, off) ==
    /\ \E outcome \in (IF WritesOutsideOR(v, map, off)
                       THEN UndefinedOutcomesOR(computeVoronoiWeightsOR(v, map, off))
                       ELSE {computeVoronoiWeightsOR(v, map, off)}) :
        /\ SetV(outcome)
        /\ m_weightsRGB' = IF outcome.aborted \/ lastCall'.op # "relighting" THEN m_weightsRGB
                           ELSE outcome.weights
    /\ m_environmentMap' = map
    /\ lastOffset' = off

\* the head of one turn of the loop on the offsets, lights identified by a
\* strategy: clearWeights, computeVoronoiWeightsOR, getRGBWeights
RelightingPassOR ==
    /\ ~aborted /\ ~IsCleared(V)
    /\ m_lightType \in {"", "Point"} /\ m_lightType' = "Point"
    /\ lastCall' = [op |-> "relighting"]
    /\ \E map \in LoopMaps, off \in LoopOffsets :
        IntegrateOR(Voronoi_clearWeights(V), map, off)
    /\ UNCHANGED <<basisVars, sessionVars, m_masks, m_indirectLightPicture, optVars, loadVars>>

\* the head of one turn of the loop on the offsets with the light type
\* "Gaussian": clearWeights, getRGBWeights (the integration is commented
\* out); followed for the runs whose lights a strategy identified
RelightingPassGaussian ==
    /\ ~aborted /\ ~IsCleared(V)
    /\ m_lightType \in {"", "Gaussian"} /\ m_lightType' = "Gaussian"
    /\ lastCall' = [op |-> "relighting: gaussian"]
    /\ \E map \in LoopMaps, off \in LoopOffsets :
        /\ SetV(Voronoi_clearWeights(V))
        /\ m_weightsRGB' = Voronoi_clearWeights(V).weights
        /\ m_environmentMap' = map
        /\ lastOffset' = off
    /\ UNCHANGED <<basisVars, sessionVars, m_masks, m_indirectLightPicture, optVars, loadVars>>

\* the mask files and the picture of the indirect light of the run
LoopMasks ==
    IF ~IsFirstTurn THEN {<<m_masks, m_indirectLightPicture>>}
    ELSE UNION {MaskFileSets(n) \X (0..n) : n \in 1..MaxConditions}

\* the head of one turn of the loop on the offsets with the masks:
\* computeWeightsMasks
RelightingPassMasks ==
    /\ ~aborted /\ IsCleared(V)
    /\ m_lightType \in {"", "Point"} /\ m_lightType' = "Point"
    /\ \E masks \in LoopMasks, map \in LoopMaps, off \in LoopOffsets :
        /\ m_weightsRGB' = computeWeightsMasks(map, off, masks[1], Len(masks[1].condition_mask),
                                               masks[2], m_envMapWidth, m_envMapHeight)
        /\ m_masks' = masks[1]
        /\ m_indirectLightPicture' = masks[2]
        /\ m_environmentMap' = map
        /\ lastOffset' = off
    /\ lastCall' = [op |-> "relighting: masks"]
    /\ UNCHANGED <<basisVars, sessionVars, voronoiVars, aborted, optVars, loadVars>>

\* Voronoi::computeVoronoiWeightsOR called with any offset, on weights that
\* are clear
ComputeVoronoiWeightsOR ==
    /\ ~aborted /\ m_rgbWeights = <<>>
    /\ lastCall' = [op |-> "computeVoronoiWeightsOR"]
    /\ \E map \in EnvironmentMaps, off \in AnyOffsets : IntegrateOR(V, map, off)
    /\ UNCHANGED <<basisVars, sessionVars, m_masks, m_indirectLightPicture, runVars>>

NextOR ==
    \/ IdentifyMedianEnergy
    \/ IdentifyLightsAutomatically
    \/ RelightingPassOR
    \/ RelightingPassGaussian
    \/ RelightingPassMasks
    \/ ComputeVoronoiWeightsOR

SpecOR == Init /\ [][NextOR]_vars

(***************************************************************************)
(* Operations on the stand-alone LightingBasis                             *)
(***************************************************************************)
BasisPoints == {<<40, 30>>, <<-5, 2000>>}

\* rectangles: extent (200,150) inside the map and drawn from its upper
\* right corner, extent (200,150) leaving the map, narrower than the spacing
\* on one axis, on both axes
BasisRectangles ==
    {<< <<230, 20>>, <<30, 170>> >>, << <<950, 450>>, <<1150, 600>> >>,
     << <<10, 10>>, <<20, 100>> >>, << <<5, 9>>, <<8, 5>> >>}

BasisPointLists == UNION {[1..n -> BasisPoints] : n \in 0..MaxBatch}

\* the default map, and one that the rectangles of extent (200,150) leave
BasisMapSizes == {<<1024, 512>>, <<220, 160>>}

BasisCanGrow ==
    /\ Len(basis.pointLightSourcePosition) < MaxPointLights
    /\ Len(basis.rectanglesAreaLights) <= MaxAreaLights

BasisAddPointLight ==
    /\ BasisCanGrow
    /\ \E p \in BasisPoints : basis' = LightingBasis_addPointLight(basis, p)
    /\ lastCall' = [op |-> "LightingBasis::addPointLight"]
    /\ UNCHANGED <<basisFile, voronoiFile, sessionVars, voronoiVars, aborted, relightingVars, runVars>>

BasisAddPointLights ==
    /\ BasisCanGrow
    /\ \E points \in BasisPointLists :
        /\ Len(basis.pointLightSourcePosition) + Len(points) <= MaxPointLights
        /\ basis' = LightingBasis_addPointLights(basis, points)
    /\ lastCall' = [op |-> "LightingBasis::addPointLights"]
    /\ UNCHANGED <<basisFile, voronoiFile, sessionVars, voronoiVars, aborted, relightingVars, runVars>>

BasisAddAreaLight ==
    /\ BasisCanGrow /\ Len(basis.rectanglesAreaLights) < MaxAreaLights
    /\ \E r \in BasisRectangles : basis' = LightingBasis_addAreaLight(basis, r[1], r[2])
    /\ lastCall' = [op |-> "LightingBasis::addAreaLight"]
    /\ UNCHANGED <<basisFile, voronoiFile, sessionVars, voronoiVars, aborted, relightingVars, runVars>>

BasisAddAreaLights ==
    /\ BasisCanGrow /\ basis.rectanglesAreaLights = <<>>
    /\ \E r1 \in BasisRectangles, r2 \in BasisRectangles :
        basis' = LightingBasis_addAreaLights(basis, <<r1, r2>>)
    /\ lastCall' = [op |-> "LightingBasis::addAreaLights"]
    /\ UNCHANGED <<basisFile, voronoiFile, sessionVars, voronoiVars, aborted, relightingVars, runVars>>

BasisUniformSampling ==
    /\ Len(basis.pointLightSourcePosition) <= MaxPointLights
    /\ \E size \in BasisMapSizes :
        /\ basis' = LightingBasis_uniformSamplingAreaLightSources(basis, size[1], size[2])
        /\ lastCall' = [op |-> "LightingBasis::uniformSamplingAreaLightSources", arg |-> size]
    /\ UNCHANGED <<basisFile, voronoiFile, sessionVars, voronoiVars, aborted, relightingVars, runVars>>

\* the file is written once
BasisSave ==
    /\ Len(basis.pointLightSourcePosition) <= MaxPointLights /\ basisFile = <<>>
    /\ basisFile' = LightingBasis_saveBasis(basis)
    /\ lastCall' = [op |-> "LightingBasis::saveBasis"]
    /\ UNCHANGED <<basis, voronoiFile, sessionVars, voronoiVars, aborted, relightingVars, runVars>>

BasisLoad ==
    /\ Len(basis.pointLightSourcePosition) <= MaxPointLights
    /\ basis' = LightingBasis_loadBasis(basis, basisFile)
    /\ lastCall' = [op |-> "LightingBasis::loadBasis"]
    /\ UNCHANGED <<basisFile, voronoiFile, sessionVars, voronoiVars, aborted, relightingVars, runVars>>

BasisClear ==
    /\ basis' = LightingBasis_clearBasis(basis)
    /\ lastCall' = [op |-> "LightingBasis::clearBasis"]
    /\ UNCHANGED <<basisFile, voronoiFile, sessionVars, voronoiVars, aborted, relightingVars, runVars>>

NextBasis ==
    \/ BasisAddPointLight
    \/ BasisAddPointLights
    \/ BasisAddAreaLight
    \/ BasisAddAreaLights
    \/ BasisUniformSampling
    \/ BasisSave
    \/ BasisLoad
    \/ BasisClear

SpecBasis == Init /\ [][NextBasis]_vars

(***************************************************************************)
(* Properties                                                              *)
(***************************************************************************)
Domain(width, height) == (0..(width - 1)) \X (0..(height - 1))

Lights == m_basis.pointLightSourcePosition

\* the light of index k (from 0) is at minimum distance from pixel px among
\* all the point lights of the basis
IsNearestLight(k, px) ==
    /\ k \in 0..(Len(Lights) - 1)
    /\ \A i \in 1..Len(Lights) : Dist2(Lights[k + 1], px) <= Dist2(Lights[i], px)

\* ... and no other position of the basis is as near
IsOnlyNearestLight(k, px) ==
    /\ k \in 0..(Len(Lights) - 1)
    /\ \A i \in 1..Len(Lights) :
        i # k + 1 => Dist2(Lights[k + 1], px) < Dist2(Lights[i], px)

CountingCalls == {"numberOfPixelsPerVoronoiCell", "addPointLight", "addAreaLight"}

C2_NearestLight ==
    (~aborted /\ m_voronoiSubdivision # {})
        => \A px \in Domain(m_envMapWidth, m_envMapHeight) :
               IsNearestLight(findNearestLightSource(V, px[1], px[2]), px)

InsertionCalls == {"addPointLight", "addAreaLight", "setVoronoi", "setVoronoiCells"}

\* C3: an insertion (single point, batch, area light, setVoronoi) appends no
\* position outside the map extent [0,W) x [0,H) to the point-light sequence.
C3_OutsideRejected ==
    [][lastCall'.op \in InsertionCalls
        => \A i \in (Len(Lights) + 1)..Len(m_basis'.pointLightSourcePosition) :
               InBoundingBox(m_basis'.pointLightSourcePosition[i],
                             m_envMapWidth', m_envMapHeight')]_vars

IdentificationCalls ==
    {"setVoronoi", "setVoronoiCells", "identifyMedianEnergy", "identifyLightsAutomatically"}

\* the number of places where cell c appears in the groups
Occurrences(cells, c) ==
    Cardinality({kl \in (1..Len(cells)) \X (0..ManyConditions + 2) :
                    /\ kl[2] + 1 <= Len(cells[kl[1]])
                    /\ cells[kl[1]][kl[2] + 1] = c})

\* every cell 0..n-1 is in exactly one group, every index in a group is a cell
IsMappingOfCells(cells, n) ==
    /\ \A c \in 0..(n - 1) : Occurrences(cells, c) = 1
    /\ \A k \in 1..Len(cells) : \A l \in 1..Len(cells[k]) : cells[k][l] \in 0..(n - 1)

\* C5: a step that fills the cell-to-condition mapping of a cleared Voronoi
\* (setVoronoi in both overloads, identifyMedianEnergy,
\* identifyLightsAutomatically) leaves every existing cell in exactly one
\* group and every index in a group that of an existing cell.
C5_MappingPartition ==
    [][(lastCall'.op \in IdentificationCalls /\ IsCleared(V) /\ ~aborted')
        => IsMappingOfCells(m_cellNumberPerPicture', m_basis'.numberOfPointLights)]_vars

MutationCalls ==
    {"addPointLight", "addAreaLight", "setVoronoi", "setVoronoiCells", "clearVoronoi",
     "setEnvironmentMapSize"}

\* C6: after a structural mutation the count vector has one entry per point
\* light, and entry k is the size of cell k in the nearest-light partition
\* of the current domain: it counts every pixel that has light k as its only
\* nearest light and no pixel that has a nearer light.
C6_CountsRebuilt ==
    (lastCall.op \in MutationCalls /\ ~aborted)
        => /\ Len(m_numberOfPixelsInVoronoiCell) = m_basis.numberOfPointLights
           /\ \A k \in 1..Len(m_numberOfPixelsInVoronoiCell) :
                /\ m_numberOfPixelsInVoronoiCell[k] >=
                     Cardinality({px \in Domain(m_envMapWidth, m_envMapHeight) :
                                     IsOnlyNearestLight(k - 1, px)})
                /\ m_numberOfPixelsInVoronoiCell[k] <=
                     Cardinality({px \in Domain(m_envMapWidth, m_envMapHeight) :
                                     IsNearestLight(k - 1, px)})

\* C4: after any sequence of LightingBasis mutators both counters equal
\* the lengths of the sequences they count.
C4_CountersConsistent ==
    /\ basis.numberOfPointLights = Len(basis.pointLightSourcePosition)
    /\ basis.numberOfAreaLights = Len(basis.rectanglesAreaLights)

\* a basis holding a rectangle has been sampled, saved and loaded again
C4_Witness ==
    /\ lastCall.op = "LightingBasis::loadBasis"
    /\ basis.areAreaLightsSampled
    /\ basis.numberOfAreaLights >= 1
    /\ basisFile # <<>>
    /\ basis.numberOfPointLights > Len(basisFile)

RectWidth(r) == Abs(r[1][1] - r[2][1])
RectHeight(r) == Abs(r[1][2] - r[2][2])

IsSmallRectangle(r) ==
    RectWidth(r) < numberOfPixelsBetweenSamples \/ RectHeight(r) < numberOfPixelsBetweenSamples

IsBigRectangle(r) == RectWidth(r) = 200 /\ RectHeight(r) = 150

IsInsideMap(r, size) == InBoundingBox(r[1], size[1], size[2]) /\ InBoundingBox(r[2], size[1], size[2])

\* p is the centre of r, up to the rounding to an integer position
IsCentre(p, r) ==
    /\ Abs(2 * p[1] - (r[1][1] + r[2][1])) <= 1
    /\ Abs(2 * p[2] - (r[1][2] + r[2][2])) <= 1

\* "appended" is made of one part per rectangle, in order: one point at the
\* centre for a small rectangle, 48 points for a rectangle of extent (200,150)
\* (when "needInside": only if it lies inside the map), any part otherwise
RECURSIVE IsExpansion(_, _, _, _)
IsExpansion(appended, rectangles, size, needInside) ==
    IF rectangles = <<>> THEN appended = <<>>
    ELSE LET r == Head(rectangles)
             rest(n) == IsExpansion(SubSeq(appended, n + 1, Len(appended)),
                                    Tail(rectangles), size, needInside)
         IN  IF IsSmallRectangle(r)
             THEN appended # <<>> /\ IsCentre(appended[1], r) /\ rest(1)
             ELSE IF IsBigRectangle(r) /\ (needInside => IsInsideMap(r, size))
             THEN Len(appended) >= 48 /\ rest(48)
             ELSE \E n \in 0..Len(appended) : rest(n)

SamplingStep(needInside) ==
    lastCall'.op = "LightingBasis::uniformSamplingAreaLightSources"
        => IsExpansion(SubSeq(basis'.pointLightSourcePosition,
                              Len(basis.pointLightSourcePosition) + 1,
                              Len(basis'.pointLightSourcePosition)),
                       basis.rectanglesAreaLights, lastCall'.arg, needInside)

PartitionCalls == {"relighting", "computeVoronoiWeightsOR"}

\* the group of condition c (from 1) holds the cell
InGroup(cellNumber, c) ==
    \E l \in 1..Len(m_cellNumberPerPicture[c]) : m_cellNumberPerPicture[c][l] = cellNumber

\* the pixel of the map that the integration reads at <<j, i>>
PixelRead(px) ==
    m_environmentMap[<<jModulusOf(px[1], jOffsetOf(lastOffset, m_envMapWidth), m_envMapWidth),
                       px[2]>>]

AllNaN(pixel) == \A c \in 1..3 : pixel[c] = NaN

\* the sum over the pixels of S of channel value x row weight
RECURSIVE SolidAngleSum(_)
SolidAngleSum(S) ==
    IF S = {} THEN <<Float(0), Float(0), Float(0)>>
    ELSE LET px == CHOOSE p \in S : TRUE
             rest == SolidAngleSum(S \ {px})
         IN  [c \in 1..3 |->
                 FloatAdd(rest[c], FloatTimes(PixelRead(px)[c], SinTimes1000(px[2], m_envMapHeight)))]

\* C7: after a partition-mode integration there is one weight per condition,
\* and the weight of condition c is the sum, over the pixels whose nearest
\* cell is in the group of c and that are not not-a-number in all channels,
\* of channel value x row weight.
C7_PartitionWeights ==
    (lastCall.op \in PartitionCalls /\ ~aborted) =>
        /\ Len(m_rgbWeights) = Len(m_cellNumberPerPicture)
        /\ \A c \in 1..Len(m_cellNumberPerPicture) :
            m_rgbWeights[c] =
                SolidAngleSum({px \in Domain(m_envMapWidth, m_envMapHeight) :
                    /\ findNearestLightSource(V, px[1], px[2]) # -1
                    /\ InGroup(findNearestLightSource(V, px[1], px[2]), c)
                    /\ ~AllNaN(PixelRead(px))})

\* a pass on a map with a pixel that is not-a-number in all channels has
\* given a weight to a condition from a cell whose number is not the
\* condition's
C7_Witness ==
    /\ lastCall.op = "relighting" /\ ~aborted
    /\ \E px \in Domain(m_envMapWidth, m_envMapHeight) : AllNaN(PixelRead(px))
    /\ \E c \in 1..Len(m_cellNumberPerPicture), px \in Domain(m_envMapWidth, m_envMapHeight) :
        /\ InGroup(findNearestLightSource(V, px[1], px[2]), c)
        /\ findNearestLightSource(V, px[1], px[2]) # c - 1
        /\ m_rgbWeights[c][1] # Float(0)

\* C8: integrating with an offset gives the weights that integrating the map
\* rotated by rotateLatLongMap with offset zero gives, in partition mode and
\* in mask mode.
C8_OffsetEquivalence ==
    LET rotated == rotateLatLongMap(m_environmentMap, lastOffset, m_envMapWidth, m_envMapHeight)
    IN  /\ (lastCall.op \in PartitionCalls /\ ~aborted) =>
               m_rgbWeights = computeVoronoiWeightsOR(Voronoi_clearWeights(V), rotated,
                                                      <<0, 1>>).weights
        /\ lastCall.op = "relighting: masks" =>
               m_weightsRGB = computeWeightsMasks(rotated, <<0, 1>>, m_masks,
                                                  Len(m_masks.condition_mask),
                                                  m_indirectLightPicture,
                                                  m_envMapWidth, m_envMapHeight)

\* the mask of condition k (from 0): its own file or, for the picture of
\* the indirect light, the residual mask
MaskOfCondition(k) ==
    IF k = m_indirectLightPicture THEN m_masks.residualMask ELSE m_masks.condition_mask[k + 1]

\* C9: after a mask-mode integration the weight of condition k is the sum of
\* channel value x row weight over the pixels whose three mask channels are
\* below 127 in the mask of k and that are not not-a-number in all
\* channels, whatever the partition; it is (0,0,0) when the mask selects
\* no pixel.
C9_MaskWeights ==
    lastCall.op = "relighting: masks" =>
        /\ Len(m_weightsRGB) = Len(m_masks.condition_mask)
        /\ \A k \in 0..(Len(m_masks.condition_mask) - 1) :
            LET selected == {px \in Domain(m_envMapWidth, m_envMapHeight) :
                                \A c \in 1..3 : MaskOfCondition(k)[px][c] < 127}
            IN  /\ m_weightsRGB[k + 1] =
                       SolidAngleSum({px \in selected : ~AllNaN(PixelRead(px))})
                /\ selected = {} => m_weightsRGB[k + 1] = <<Float(0), Float(0), Float(0)>>

\* a mask-mode pass where one mask selects no pixel, another one selects
\* some but not all of them, and the map has a pixel that is not-a-number
\* in all channels
C9_Witness ==
    /\ lastCall.op = "relighting: masks"
    /\ \E px \in Domain(m_envMapWidth, m_envMapHeight) : AllNaN(PixelRead(px))
    /\ \E k \in 0..(Len(m_masks.condition_mask) - 1) :
        \A px \in Domain(m_envMapWidth, m_envMapHeight) :
            \E c \in 1..3 : MaskOfCondition(k)[px][c] >= 127
    /\ \E k \in 0..(Len(m_masks.condition_mask) - 1) :
        /\ \E px \in Domain(m_envMapWidth, m_envMapHeight) :
            \A c \in 1..3 : MaskOfCondition(k)[px][c] < 127
        /\ \E px \in Domain(m_envMapWidth, m_envMapHeight) :
            \E c \in 1..3 : MaskOfCondition(k)[px][c] = 255
        /\ m_weightsRGB[k + 1][3] # Float(0)

(***************************************************************************)
(* The weights of one turn of the loop on the offsets                      *)
(***************************************************************************)
LoopCalls == {"relighting", "relighting: masks", "relighting: gaussian"}

\* the integral of the map read with the last offset over the cells of
\* condition c (from 1)
PartitionIntegral(c) ==
    SolidAngleSum({px \in Domain(m_envMapWidth, m_envMapHeight) :
        /\ findNearestLightSource(V, px[1], px[2]) # -1
        /\ InGroup(findNearestLightSource(V, px[1], px[2]), c)
        /\ ~AllNaN(PixelRead(px))})

\* the integral of the map read with the last offset over the pixels that
\* the mask of condition k (from 0) selects
MaskIntegral(k) ==
    SolidAngleSum({px \in Domain(m_envMapWidth, m_envMapHeight) :
        /\ \A c \in 1..3 : MaskOfCondition(k)[px][c] < 127
        /\ ~AllNaN(PixelRead(px))})

\* C11: the weights that a turn of the loop on the offsets leaves after its
\* integration hold one RGB triple per lighting condition, each equal to
\* the integral for the offset of that turn alone: the accumulators start
\* from zero in every turn and nothing of the turn before is carried over.
C11_WeightsPerOffset ==
    (lastCall.op \in LoopCalls /\ ~aborted) =>
        IF lastCall.op = "relighting: masks"
        THEN /\ Len(m_weightsRGB) = Len(m_masks.condition_mask)
             /\ \A k \in 0..(Len(m_masks.condition_mask) - 1) :
                    m_weightsRGB[k + 1] = MaskIntegral(k)
        ELSE /\ Len(m_weightsRGB) = Len(m_cellNumberPerPicture)
             /\ \A c \in 1..Len(m_cellNumberPerPicture) :
                    m_weightsRGB[c] = PartitionIntegral(c)

\* the same for the turns of the runs with the light type "Point"
C11_PointRuns == m_lightType = "Point" => C11_WeightsPerOffset

(***************************************************************************)
(* The end of one turn of the loop on the offsets of                       *)
(* OfficeRoomRelighting::relighting(): optimisation and normalisation      *)
(***************************************************************************)
OptimisationMethods == {"Disabled", "Original Space", "PCA Space"}

\* startingPointArray[n] = 1.0
InitialStartingPoint(numberOfLightingConditions) == [n \in 1..numberOfLightingConditions |-> 1]

\* the row of weightsTableOptimisation for grace_latlong in the bedroom at
\* the offset 0, in millionths (rounded); the factor of condition k is the
\* fraction <<scalingFactors[k], 1000000>>
scalingFactors == <<2, 57, 144, 472, 101, 346, 309, 58, 60, 70, 101, 889>>

\* m_weightsRGB[k][l] *= scalingFactors[k]: a weight a with the factor f is
\* the fraction <<a * f, 1000000>>
applyScalingFactors(weightsRGB) ==
    [k \in 1..Len(weightsRGB) |->
        [l \in 1..3 |-> IF isnan(weightsRGB[k][l]) THEN NaN
                        ELSE <<weightsRGB[k][l][1] * scalingFactors[k], 1000000>>]]

\* std::max of two floats: (a < b) ? b : a
FloatMax(a, b) == IF ~isnan(a) /\ ~isnan(b) /\ a[1] < b[1] THEN b ELSE a

RECURSIVE ChannelSum(_, _, _)
ChannelSum(rgbWeights, channel, i) ==
    IF i > Len(rgbWeights) THEN Float(0)
    ELSE FloatAdd(rgbWeights[i][channel], ChannelSum(rgbWeights, channel, i + 1))

\* normalizeWeightsRGB: every weight divided by the largest of the sums of
\* the three channels, unless that is 0.  The weights of one call have the
\* same denominator, so the quotient of a by sum is <<a[1], sum[1]>>.
normalizeWeightsRGB(rgbWeights) ==
    LET sum == FloatMax(ChannelSum(rgbWeights, 1, 1),
                        FloatMax(ChannelSum(rgbWeights, 2, 1), ChannelSum(rgbWeights, 3, 1)))
    IN  IF ~isnan(sum) /\ sum[1] = 0 THEN rgbWeights
        ELSE [i \in 1..Len(rgbWeights) |->
                 [c \in 1..3 |-> IF isnan(rgbWeights[i][c]) \/ isnan(sum) THEN NaN
                                 ELSE <<rgbWeights[i][c][1], sum[1]>>]]

\* the optimisation method of the run is read for the first time at the end
\* of the first turn, which draws it
LoopMethods ==
    IF startingPointArray = <<>> THEN OptimisationMethods ELSE {m_optimisationMethod}

\* the array allocated before the loop, then the one the turns have left
LoopStartingPoint ==
    IF startingPointArray = <<>> THEN InitialStartingPoint(Len(m_masks.condition_mask))
    ELSE startingPointArray

\* Optimisation optimisation(m_environmentMapName.toStdString(), ...)
LoopOptimisation ==
    Optimisation(m_environmentMap, m_envMapWidth, m_envMapHeight,
                 Len(m_masks.condition_mask), m_indirectLightPicture, lastOffset,
                 m_masks, m_weightsRGB)

\* what an optimisation of the turn leaves
AfterOptimisation(method, outcome) ==
    /\ optimisationGlobals' = setGlobalVariables(LoopOptimisation)
    /\ optimised' = [run |-> optimised.run + 1, op |-> method,
                     object |-> LoopOptimisation, globals |-> setGlobalVariables(LoopOptimisation),
                     start |-> LoopStartingPoint,
                     multipliers |-> outcome.multipliers, raised |-> outcome.raised,
                     startingPointArray |-> outcome.startingPointArray]
    /\ aborted' = outcome.raised
    /\ startingPointArray' = outcome.startingPointArray
    /\ m_weightsRGB' = IF outcome.raised THEN m_weightsRGB
                       ELSE normalizeWeightsRGB(outcome.object.rgbWeights)

\* lines 170-200 of relighting(), after the weights of the turn are computed
RelightingOptimisation ==
    /\ ~aborted /\ lastCall.op = "relighting: masks"
    /\ lastCall' = [op |-> "relighting: optimisation"]
    /\ \E method \in LoopMethods :
        /\ m_optimisationMethod' = method
        /\ \/ /\ method = "Disabled"
              /\ m_weightsRGB' = normalizeWeightsRGB(m_weightsRGB)
              /\ startingPointArray' = LoopStartingPoint
              /\ UNCHANGED <<optimisationGlobals, optimised, aborted>>
           \/ /\ method = "Original Space"
              \* weightsTableOptimisation has found a row for the map, the
              \* room and the offset
              /\ m_weightsRGB' = normalizeWeightsRGB(applyScalingFactors(m_weightsRGB))
              /\ startingPointArray' = LoopStartingPoint
              /\ UNCHANGED <<optimisationGlobals, optimised, aborted>>
           \/ /\ method = "Original Space"
              /\ \E outcome \in environmentMapOptimisation(LoopOptimisation,
                                     setGlobalVariables(LoopOptimisation), LoopStartingPoint) :
                    AfterOptimisation(method, outcome)
           \/ /\ method = "PCA Space"
              /\ \E outcome \in environmentMapPCAOptimisation(LoopOptimisation,
                                     setGlobalVariables(LoopOptimisation), LoopStartingPoint) :
                    AfterOptimisation(method, outcome)
    /\ UNCHANGED <<basisVars, sessionVars, voronoiVars, m_masks, m_indirectLightPicture, m_environmentMap,
                   lastOffset, m_lightType, optimisations, loadVars>>

\* the next turn of the loop begins when the turn before has ended
LoopPassMasks == lastCall.op # "relighting: masks" /\ RelightingPassMasks

NextLoop ==
    \/ LoopPassMasks
    \/ RelightingOptimisation

SpecLoop == Init /\ [][NextLoop]_vars

\* C12: in a run of relighting() the first optimisation starts from 1.0 in
\* every coordinate; an optimisation that follows one in the original space
\* starts from the multipliers that one has found; after an optimisation in
\* the PCA space the array is 1.0 in every coordinate again.
C12_StartingPoint ==
    [][(optimised'.run # optimised.run) =>
          /\ optimised'.start =
                IF optimised.run = 0 \/ optimised.op = "PCA Space"
                THEN InitialStartingPoint(Len(optimised'.start))
                ELSE optimised.multipliers
          /\ (optimised'.op = "PCA Space" /\ ~optimised'.raised) =>
                startingPointArray' = InitialStartingPoint(Len(optimised'.start))
          /\ (optimised'.op = "Original Space" /\ ~optimised'.raised) =>
                startingPointArray' = optimised'.multipliers]_vars

\* a second optimisation in the original space has started from multipliers
\* that are not all 1.0
C12_Witness ==
    /\ optimised.run >= 2 /\ optimised.op = "Original Space"
    /\ optimised.start # InitialStartingPoint(Len(optimised.start))

\* after an optimisation in the PCA space that leaves 1.0 has found other
\* multipliers
C12_WitnessPCA ==
    /\ optimised.run >= 2 /\ optimised.op = "PCA Space" /\ ~optimised.raised
    /\ optimised.multipliers # InitialStartingPoint(Len(optimised.start))

(***************************************************************************)
(* Optimisation objects: construction and the two optimisations, called    *)
(* in any order on objects that live together                              *)
(***************************************************************************)
MaxObjects == 2         \* Optimisation objects constructed in one behaviour
MaxRuns == 2            \* optimisations run in one behaviour

\* the masks of n lighting conditions: all black for the first condition,
\* first column black for the others
OptimisationMasks(n) ==
    [condition_mask |-> [k \in 1..n |-> MaskOf(IF k = 1 THEN 0 ELSE 2, m_envMapWidth,
                                               m_envMapHeight)],
     residualMask |-> MaskOf(1, m_envMapWidth, m_envMapHeight)]

\* weights of a lighting condition: small against the map, and of its size
SmallWeights == <<Float(100), Float(0), Float(0)>>
LargeWeights == <<Float(200), Float(200), Float(100)>>

\* the maps, numbers of lighting conditions and weights of the objects: one
\* lighting condition on the map without not-a-number with either weights,
\* and the most lighting conditions on the map with a not-a-number channel
ArgumentChoices ==
    {<<"ramp", 1, SmallWeights>>, <<"ramp", 1, LargeWeights>>,
     <<"nanChannel", MaxConditions, LargeWeights>>}

\* the arguments of the constructor; the picture of the indirect light is
\* the 4 of the constructor of OfficeRoomRelighting
OptimisationArguments ==
    {Optimisation(EnvironmentMapOf(c[1], m_envMapWidth, m_envMapHeight), m_envMapWidth,
                  m_envMapHeight, c[2], 4, <<0, 1>>, OptimisationMasks(c[2]),
                  [k \in 1..c[2] |-> c[3]]) : c \in ArgumentChoices}

\* starting points: below the box, in it and above it
StartingPoints(n) == {[i \in 1..n |-> x] : x \in {-1, 1, 12}}

\* Optimisation optimisation(...): a new object; its constructor sets the
\* static variables
ConstructOptimisation ==
    /\ ~aborted /\ Len(optimisations) < MaxObjects
    /\ \E o \in OptimisationArguments :
        /\ optimisations' = Append(optimisations, [members |-> o, arguments |-> o])
        /\ optimisationGlobals' = setGlobalVariables(o)
    /\ lastCall' = [op |-> "Optimisation"]
    /\ UNCHANGED <<basisVars, sessionVars, voronoiVars, relightingVars, aborted, m_lightType,
                   m_optimisationMethod, startingPointArray, optimised, loadVars>>

\* what an optimisation on the object of a slot leaves
AfterRun(method, slot, start, outcome) ==
    /\ optimisations' = [optimisations EXCEPT ![slot].members = outcome.object]
    /\ optimised' = [run |-> optimised.run + 1, op |-> method,
                     object |-> optimisations[slot].arguments,
                     globals |-> optimisationGlobals, start |-> start,
                     multipliers |-> outcome.multipliers, raised |-> outcome.raised,
                     startingPointArray |-> outcome.startingPointArray]
    /\ aborted' = outcome.raised

EnvironmentMapOptimisation ==
    /\ ~aborted /\ optimised.run < MaxRuns
    /\ lastCall' = [op |-> "environmentMapOptimisation"]
    /\ \E slot \in 1..Len(optimisations) :
        \E start \in StartingPoints(optimisations[slot].members.numberOflightingConditions) :
            \E outcome \in environmentMapOptimisation(optimisations[slot].members,
                                                      optimisationGlobals, start) :
                AfterRun("Original Space", slot, start, outcome)
    /\ UNCHANGED <<basisVars, sessionVars, voronoiVars, relightingVars, m_lightType,
                   m_optimisationMethod, startingPointArray, optimisationGlobals, loadVars>>

EnvironmentMapPCAOptimisation ==
    /\ ~aborted /\ optimised.run < MaxRuns
    /\ lastCall' = [op |-> "environmentMapPCAOptimisation"]
    /\ \E slot \in 1..Len(optimisations) :
        \E start \in StartingPoints(optimisations[slot].members.numberOflightingConditions) :
            \E outcome \in environmentMapPCAOptimisation(optimisations[slot].members,
                                                         optimisationGlobals, start) :
                AfterRun("PCA Space", slot, start, outcome)
    /\ UNCHANGED <<basisVars, sessionVars, voronoiVars, relightingVars, m_lightType,
                   m_optimisationMethod, startingPointArray, optimisationGlobals, loadVars>>

NextOpt ==
    \/ ConstructOptimisation
    \/ EnvironmentMapOptimisation
    \/ EnvironmentMapPCAOptimisation

SpecOpt == Init /\ [][NextOpt]_vars

\* the last optimisation has returned
HasReturned == optimised.run >= 1 /\ ~optimised.raised

IsDefinedRun(h) ==
    /\ h.run >= 1 /\ ~h.raised /\ h.op = "Original Space"
    /\ ~ReadsOutside(h.globals, Len(h.start))
    /\ ~IsNaNObjective(h.globals, Len(h.start))

\* C14: two optimisations in the original space on objects constructed with
\* the same arguments, from the same starting point, find the same
\* multipliers, whatever other objects have been constructed before or
\* between them.
C14_RepeatedRuns ==
    [][(/\ optimised'.run # optimised.run
        /\ IsDefinedRun(optimised) /\ IsDefinedRun(optimised')
        /\ optimised'.object = optimised.object
        /\ optimised'.start = optimised.start)
          => optimised'.multipliers = optimised.multipliers]_vars

(***************************************************************************)
(* OfficeRoomRelighting::relighting() from its beginning: the files are    *)
(* read, the lights identified, then the loop on the offsets runs          *)
(***************************************************************************)
\* loadPFM and cv::imread: the content of the file, a matrix without data
\* when the file cannot be read
loadPFM(file) == file

\* the environment map files: none, or one of the size of the first map
EnvironmentMapFiles == {<<>>} \cup {EnvironmentMapOf(p, InitWidth, InitHeight) : p \in MapPatterns}

\* the image files of the lighting conditions, each one there or not
ImageFiles ==
    UNION {[1..n -> {<<>>, <<"image">>}] : n \in 1..MaxConditions}

\* Relighting::loadEnvironmentMap: the members it sets and what it writes
Relighting_loadEnvironmentMap(file) ==
    [m_environmentMap |-> loadPFM(file),
     cerr |-> IF loadPFM(file) = <<>> THEN <<<<"Could not load : ", "environment map">>>> ELSE <<>>,
     m_environmentMapWidth |-> IF loadPFM(file) = <<>> THEN 0 ELSE InitWidth,
     m_environmentMapHeight |-> IF loadPFM(file) = <<>> THEN 0 ELSE InitHeight]

EXIT_SUCCESS == 0
EXIT_FAILURE == 1

\* the loop of loadReflectanceField from the image i (from 0), on the array
\* of matrices; a write past the end of the array is left to
\* WritesOutsideField
RECURSIVE LoadImagesLoop(_, _, _)
LoadImagesLoop(reflectanceField, images, i) ==
    IF i >= Len(images)
    THEN [m_reflectanceField |-> reflectanceField, cerr |-> <<>>, returned |-> EXIT_SUCCESS]
    ELSE IF loadPFM(images[i + 1]) = <<>>
    THEN [m_reflectanceField |-> reflectanceField,
          cerr |-> <<<<"Couldn't open the file : ", i>>>>, returned |-> EXIT_FAILURE]
    ELSE LoadImagesLoop(IF i + 1 \in DOMAIN reflectanceField
                        THEN [reflectanceField EXCEPT ![i + 1] = loadPFM(images[i + 1])]
                        ELSE reflectanceField,
                        images, i + 1)

\* if(m_reflectanceField == NULL) m_reflectanceField = new Mat[...]: the
\* array of the object, <<>> being NULL
AllocateReflectanceField(reflectanceField, numberOfLightingConditions) ==
    IF reflectanceField = <<>> THEN [i \in 1..numberOfLightingConditions |-> <<>>]
    ELSE reflectanceField

\* the loop writes m_reflectanceField[i] for an i past the end of the array
WritesOutsideField(reflectanceField, images) ==
    \E i \in (Len(AllocateReflectanceField(reflectanceField, Len(images))) + 1)..Len(images) :
        \A k \in 1..i : loadPFM(images[k]) # <<>>

\* OfficeRoomRelighting::loadReflectanceField on the array that the object
\* holds: the images of the lighting conditions, then the mask of the object
loadReflectanceField(reflectanceField, images, mask) ==
    LET loaded == LoadImagesLoop(AllocateReflectanceField(reflectanceField, Len(images)),
                                 images, 0)
    IN  IF loaded.returned = EXIT_FAILURE
        THEN [loaded EXCEPT !.returned = TRUE] @@ [m_objectMask |-> <<>>]
        ELSE IF loadPFM(mask) = <<>>
        THEN [loaded EXCEPT !.returned = TRUE,
                            !.cerr = <<<<"Couldn't open the file : ", "mask">>>>]
             @@ [m_objectMask |-> <<>>]
        ELSE [loaded EXCEPT !.returned = FALSE] @@ [m_objectMask |-> loadPFM(mask)]

\* line 74 of relighting(): loadEnvironmentMap, which returns nothing
RelightingLoadEnvironmentMap ==
    /\ ~aborted /\ ~files.read /\ IsCleared(V) /\ m_lightType = ""
    /\ \E file \in EnvironmentMapFiles :
        /\ files' = [files EXCEPT !.read = TRUE, !.environmentMap = file]
        /\ m_environmentMap' = Relighting_loadEnvironmentMap(file).m_environmentMap
        /\ cerr' = cerr \o Relighting_loadEnvironmentMap(file).cerr
        /\ SetV([V EXCEPT !.w = Relighting_loadEnvironmentMap(file).m_environmentMapWidth,
                          !.h = Relighting_loadEnvironmentMap(file).m_environmentMapHeight])
    /\ lastCall' = [op |-> "loadEnvironmentMap"]
    /\ UNCHANGED <<basisVars, sessionVars, lastOffset, m_masks, m_indirectLightPicture, m_weightsRGB,
                   m_lightType, optVars, m_reflectanceField, m_objectMask>>

\* lines 75 to 93 of relighting(): setEnvironmentMapSize and
\* loadReflectanceField, whose result relighting() does not read
RelightingLoadReflectanceField ==
    /\ ~aborted /\ lastCall.op = "loadEnvironmentMap"
    /\ \E images \in ImageFiles, mask \in {<<>>, <<"mask">>} :
        LET loaded == loadReflectanceField(m_reflectanceField, images, mask)
        IN  \* a write past the end of the array has any of its outcomes:
            \* nothing visible, or a crash
            /\ \E crash \in (IF WritesOutsideField(m_reflectanceField, images)
                              THEN BOOLEAN ELSE {FALSE}) :
                  SetV([Voronoi_setEnvironmentMapSize(V, m_envMapWidth, m_envMapHeight)
                           EXCEPT !.aborted = crash])
            /\ files' = [files EXCEPT !.images = images, !.mask = mask]
            /\ m_reflectanceField' = loaded.m_reflectanceField
            /\ m_objectMask' = loaded.m_objectMask
            /\ cerr' = cerr \o loaded.cerr
            /\ lastCall' = [op |-> "loadReflectanceField", returned |-> loaded.returned]
    /\ UNCHANGED <<basisVars, sessionVars, relightingVars, m_lightType, optVars>>

\* lines 125 to 129: identifyMedianEnergy on the images of the lighting
\* conditions, which have their own size
RelightingIdentifyMedianEnergy ==
    /\ ~aborted /\ lastCall.op = "loadReflectanceField"
    /\ \E patterns \in PatternLists(Len(files.images)) :
        SetV(identifyMedianEnergy(V,
            [k \in 1..Len(files.images) |-> ConditionImage(patterns[k], InitWidth, InitHeight)]))
    /\ lastCall' = [op |-> "identifyMedianEnergy"]
    /\ UNCHANGED <<basisVars, sessionVars, relightingVars, runVars>>

\* the turns of the loop on the offsets of the run
RunPassOR == files.read /\ RelightingPassOR

RunPassGaussian == files.read /\ RelightingPassGaussian

NextRun ==
    \/ RelightingLoadEnvironmentMap
    \/ RelightingLoadReflectanceField
    \/ RelightingIdentifyMedianEnergy
    \/ RunPassOR
    \/ RunPassGaussian

SpecRun == Init /\ [][NextRun]_vars

\* the stages of relighting() that depend on the environment map
DependentStages ==
    {"loadReflectanceField", "identifyMedianEnergy", "relighting", "relighting: gaussian"}

\* C15: when the environment map cannot be loaded, relighting() runs none
\* of the stages that depend on it (size of the Voronoi, identification of
\* the lights, integration), and no exception leaves it.
C15_MissingMapStopsRun ==
    (files.read /\ files.environmentMap = <<>>) =>
        /\ lastCall.op \notin DependentStages
        /\ ~aborted

\* C16: after loadReflectanceField every image that is on the disk is
\* loaded, every image that is not has a line on std::cerr and no data, and
\* the run goes on.
C16_MissingImageSkipped ==
    (lastCall.op = "loadReflectanceField") =>
        /\ ~aborted
        /\ \A i \in 1..Len(files.images) :
              /\ m_reflectanceField[i] = files.images[i]
              /\ files.images[i] = <<>> =>
                    \E n \in 1..Len(cerr) : cerr[n] = <<"Couldn't open the file : ", i - 1>>

\* the positions written on the lines of basis.txt, in the order of the file
FilePositions(file) == [i \in 1..Len(file) |-> <<file[i][2], file[i][3]>>]

\* C17: loadBasis on a basis of n point lights with a file of m lines keeps
\* the n point lights in place, puts the m positions of the file after them
\* in the order of the file, and counts n + m point lights; the rectangles
\* are untouched.
C17_LoadBasisAppends ==
    [][(lastCall'.op = "LightingBasis::loadBasis") =>
          /\ basis'.pointLightSourcePosition =
                basis.pointLightSourcePosition \o FilePositions(basisFile)
          /\ basis'.numberOfPointLights = basis.numberOfPointLights + Len(basisFile)
          /\ basis'.rectanglesAreaLights = basis.rectanglesAreaLights
          /\ basis'.numberOfAreaLights = basis.numberOfAreaLights]_vars

\* loadBasis has run with a file of some lines on a basis that held point
\* lights
C17_Witness ==
    /\ lastCall.op = "LightingBasis::loadBasis"
    /\ Len(basisFile) > 0
    /\ Len(basis.pointLightSourcePosition) > Len(basisFile)

(***************************************************************************)
(* Light stage: the integrations of the loop of                            *)
(* LightStageRelighting::relighting() on a Voronoi that its callers set    *)
(* and clear                                                               *)
(***************************************************************************)
\* a line of light_intensities.txt: the file holds 1.0 for every light
lightIntensities(cellNumber) == <<1, 1, 1>>

\* m_intensity[cellNumber] += (R + G + B) / 3.0 * sin(...): the model keeps
\* three times the intensity
AccumulateIntensity(intensity, cellNumber, pixel, i, height) ==
    LET R == FloatTimes(pixel[1], lightIntensities(cellNumber)[1])
        G == FloatTimes(pixel[2], lightIntensities(cellNumber)[2])
        B == FloatTimes(pixel[3], lightIntensities(cellNumber)[3])
    IN  IF ~(isnan(R) /\ isnan(G) /\ isnan(B)) /\ cellNumber + 1 \in DOMAIN intensity
        THEN [intensity EXCEPT ![cellNumber + 1] =
                 FloatAdd(@, FloatTimes(FloatAdd(FloatAdd(R, G), B), SinTimes1000(i, height)))]
        ELSE intensity

RECURSIVE IntensityLoop(_, _, _, _, _)
IntensityLoop(v, environmentMap, pixels, n, intensity) ==
    IF n > Len(pixels) THEN intensity
    ELSE LET cellNumber == findNearestLightSource(v, pixels[n][1], pixels[n][2])
         IN  IntensityLoop(v, environmentMap, pixels, n + 1,
                 IF cellNumber # -1
                 THEN AccumulateIntensity(intensity, cellNumber, environmentMap[pixels[n]],
                                          pixels[n][2], v.h)
                 ELSE intensity)

\* m_intensity.resize(numberOfPointLights) keeps the values that are there
computeVoronoiIntensity(v, environmentMap) ==
    LET resized == [k \in 1..v.basis.numberOfPointLights |->
                       IF k <= Len(v.intensity) THEN v.intensity[k] ELSE Float(0)]
    IN  IF v.w * v.h = 0 THEN [v EXCEPT !.intensity = resized]
        ELSE IF v.sites = {} THEN [v EXCEPT !.intensity = resized, !.aborted = TRUE]
        ELSE [v EXCEPT !.intensity =
                 IntensityLoop(v, environmentMap, PixelsRowMajor(v.w, v.h), 1, resized)]

RECURSIVE WeightsLoopRGB(_, _, _, _, _, _)
WeightsLoopRGB(v, environmentMap, jOffset, pixels, n, weights) ==
    IF n > Len(pixels) THEN weights
    ELSE LET j == pixels[n][1]
             i == pixels[n][2]
             cellNumber == findNearestLightSource(v, j, i)
             jModulus == jModulusOf(j, jOffset, v.w)
         IN  WeightsLoopRGB(v, environmentMap, jOffset, pixels, n + 1,
                 IF cellNumber # -1
                 THEN Accumulate(weights, cellNumber,
                                 [c \in 1..3 |-> FloatTimes(environmentMap[<<jModulus, i>>][c],
                                                            lightIntensities(cellNumber)[c])],
                                 i, v.h)
                 ELSE weights)

\* one accumulator per point light is pushed behind the weights that are
\* already there
computeVoronoiWeightsRGB(v, environmentMap, offset) ==
    LET initialised == v.weights \o [k \in 1..v.basis.numberOfPointLights |-> weightsImageK]
    IN  IF v.w * v.h = 0 THEN [v EXCEPT !.weights = initialised]
        ELSE IF v.sites = {} THEN [v EXCEPT !.weights = initialised, !.aborted = TRUE]
        ELSE [v EXCEPT !.weights =
                 WeightsLoopRGB(v, environmentMap, jOffsetOf(offset, v.w),
                                PixelsRowMajor(v.w, v.h), 1, initialised)]

\* every light of the basis is a site and is counted: the integrations
\* write inside of their vectors
LightsAreCounted(v) ==
    /\ v.basis.numberOfPointLights = Len(v.basis.pointLightSourcePosition)
    /\ \A s \in v.sites : findLightSource(v, s[1], s[2]) # -1

\* Voronoi::computeVoronoiIntensity, on intensities that are clear
ComputeVoronoiIntensity ==
    /\ ~aborted /\ m_intensity = <<>> /\ LightsAreCounted(V)
    /\ \E map \in EnvironmentMaps : SetV(computeVoronoiIntensity(V, map))
    /\ lastCall' = [op |-> "computeVoronoiIntensity"]
    /\ UNCHANGED <<basisVars, sessionVars, relightingVars, runVars>>

\* Voronoi::computeVoronoiWeightsRGB, on weights that are clear
ComputeVoronoiWeightsRGB ==
    /\ ~aborted /\ m_rgbWeights = <<>> /\ LightsAreCounted(V)
    /\ \E map \in EnvironmentMaps, off \in {<<0, 1>>, <<1, 3>>} :
        SetV(computeVoronoiWeightsRGB(V, map, off))
    /\ lastCall' = [op |-> "computeVoronoiWeightsRGB"]
    /\ UNCHANGED <<basisVars, sessionVars, relightingVars, runVars>>

ClearWeights ==
    /\ ~aborted
    /\ SetV(Voronoi_clearWeights(V))
    /\ lastCall' = [op |-> "clearWeights"]
    /\ UNCHANGED <<basisVars, sessionVars, relightingVars, runVars>>

NextLS ==
    \/ SetVoronoi
    \/ AddAreaLight
    \/ ComputeVoronoiIntensity
    \/ ComputeVoronoiWeightsRGB
    \/ ClearWeights
    \/ ClearVoronoi

SpecLS == Init /\ [][NextLS]_vars

\* C18: after clearVoronoi the Voronoi is the one its constructor makes for
\* the same size of the map: the basis that clearBasis leaves (no point
\* light, no rectangle, both counters 0), no count of pixels, no group of
\* cells, no intensity, no weight, no site.
C18_ClearResets ==
    (lastCall.op = "clearVoronoi") =>
        /\ V = Voronoi(m_envMapWidth, m_envMapHeight)
        /\ m_basis.pointLightSourcePosition = <<>> /\ m_basis.rectanglesAreaLights = <<>>
        /\ m_basis.numberOfPointLights = 0 /\ m_basis.numberOfAreaLights = 0

\* after clearBasis the basis is the one its constructor makes
C18_ClearBasis == (lastCall.op = "LightingBasis::clearBasis") => basis = LightingBasis

\* clearVoronoi has cleared a Voronoi that held all of these
C18_Witness == lastCall.op = "clearVoronoi" /\ lastCall.populated

\* the sum of the energies of the pixels of the image up to the pixel p, in
\* the order of the rows
RunningEnergy(image, width, height, p) ==
    LET before == {q \in Domain(width, height) : q[2] * width + q[1] <= p[2] * width + p[1]}
        pixels == PixelsRowMajor(width, height)
    IN  TotalEnergy(image, [n \in 1..Cardinality(before) |-> pixels[n]], 1)

\* p is the first pixel, in the order of the rows, at which the running sum
\* exceeds half of the energy of the image
IsFirstAboveHalf(image, width, height, p) ==
    LET total == TotalEnergy(image, PixelsRowMajor(width, height), 1)
    IN  /\ p \in Domain(width, height)
        /\ 2 * RunningEnergy(image, width, height, p) > total
        /\ \A q \in Domain(width, height) :
              q[2] * width + q[1] < p[2] * width + p[1] =>
                  2 * RunningEnergy(image, width, height, q) <= total

\* C19: identifyMedianEnergy adds exactly one point light per lighting
\* condition, at the first pixel in the order of the rows at which the
\* running sum of the energy exceeds half of the energy of the condition,
\* and the group of condition k is the cell k alone.
C19_OneLightPerCondition ==
    (lastCall.op = "identifyMedianEnergy" /\ ~aborted) =>
        /\ Len(Lights) = Len(lastCall.arg)
        /\ m_basis.numberOfPointLights = Len(lastCall.arg)
        /\ \A k \in 1..Len(lastCall.arg) :
              /\ k <= Len(Lights) =>
                    IsFirstAboveHalf(ConditionImage(lastCall.arg[k], m_envMapWidth,
                                                    m_envMapHeight),
                                     m_envMapWidth, m_envMapHeight, Lights[k])
              /\ m_cellNumberPerPicture[k] = <<k - 1>>

\* the same for the runs whose lighting conditions all hold some energy
C19_LitConditions ==
    (lastCall.op = "identifyMedianEnergy"
        /\ \A k \in 1..Len(lastCall.arg) : lastCall.arg[k] # "dark") =>
        C19_OneLightPerCondition

\* the calls that are or hold an integration pass
IntegrationCalls == {"relighting", "relighting: masks", "computeVoronoiWeightsOR"}

\* the members of the Voronoi that are no weight accumulators
NotTheWeights(v) == [v EXCEPT !.weights = <<>>]

\* C20: an integration pass (computeVoronoiWeightsOR, computeWeightsMasks)
\* that returns leaves the point lights, the groups of cells, the counts of
\* pixels, the sites and the size of the map as they were; from the second
\* turn of a run on, the map and the masks it reads are the same too.
C20_OnlyWeightsChange ==
    [][(lastCall'.op \in IntegrationCalls /\ ~aborted') =>
          /\ NotTheWeights(V)' = NotTheWeights(V)
          /\ (lastCall.op = lastCall'.op /\ lastCall.op # "computeVoronoiWeightsOR") =>
                /\ m_environmentMap' = m_environmentMap
                /\ m_masks' = m_masks
                /\ m_indirectLightPicture' = m_indirectLightPicture]_vars

\* a pass on a Voronoi with lights, groups and counts has left weights that
\* are not all zero
C20_Witness ==
    /\ lastCall.op = "relighting" /\ ~aborted
    /\ m_numberOfPixelsInVoronoiCell # <<>> /\ Len(Lights) > 0
    /\ \E k \in 1..Len(m_rgbWeights) : m_rgbWeights[k] # weightsImageK
    /\ \E k \in 1..Len(m_numberOfPixelsInVoronoiCell) : m_numberOfPixelsInVoronoiCell[k] # 0

\* no pass of the runs writes outside of the weights
C20_WritesInside ==
    [][(lastCall'.op \in {"relighting", "computeVoronoiWeightsOR"}) =>
          ~WritesOutsideOR(Voronoi_clearWeights(V), m_environmentMap', lastOffset')]_vars

(***************************************************************************)
(* normalizeWeightsRGB on the vectors its callers build                    *)
(***************************************************************************)
\* the triples a caller pushes: sums of radiance times sin, read from a
\* file of floats, so of either sign or not-a-number
WeightTriples ==
    {<<Float(0), Float(0), Float(0)>>, <<Float(1), Float(2), Float(0)>>,
     <<Float(2), Float(1), Float(1)>>, <<Float(-1), Float(-2), Float(-3)>>,
     <<Float(0), Float(-1), Float(-1)>>, <<NaN, Float(1), Float(1)>>,
     <<Float(1), NaN, Float(2)>>}

\* vector<vector<float> > rgbWeights
WeightsNew ==
    /\ m_weightsRGB' = <<>>
    /\ lastCall' = [op |-> "rgbWeights"]
    /\ UNCHANGED <<basisVars, sessionVars, voronoiVars, m_masks, m_indirectLightPicture, m_environmentMap,
                   lastOffset, aborted, runVars>>

\* rgbWeights.push_back(weightsImageK), accumulated
WeightsPushBack ==
    /\ lastCall.op \in {"rgbWeights", "push_back"} /\ Len(m_weightsRGB) < MaxConditions
    /\ \E weightsK \in WeightTriples : m_weightsRGB' = Append(m_weightsRGB, weightsK)
    /\ lastCall' = [op |-> "push_back"]
    /\ UNCHANGED <<basisVars, sessionVars, voronoiVars, m_masks, m_indirectLightPicture, m_environmentMap,
                   lastOffset, aborted, runVars>>

NormalizeWeightsRGB ==
    /\ lastCall.op \in {"rgbWeights", "push_back"}
    /\ m_weightsRGB' = normalizeWeightsRGB(m_weightsRGB)
    /\ lastCall' = [op |-> "normalizeWeightsRGB", arg |-> m_weightsRGB]
    /\ UNCHANGED <<basisVars, sessionVars, voronoiVars, m_masks, m_indirectLightPicture, m_environmentMap,
                   lastOffset, aborted, runVars>>

NextNorm ==
    \/ WeightsNew
    \/ WeightsPushBack
    \/ NormalizeWeightsRGB

SpecNorm == Init /\ [][NextNorm]_vars

\* every weight of the result is a quotient by the same number
IsQuotients(result) ==
    \A i \in 1..Len(result), c \in 1..3 :
        Len(result[i][c]) = 2 /\ result[i][c][2] = result[1][1][2]

\* the sum over the conditions of channel c of the result, times the divisor
AggregateTimesDivisor(result, c) == SumSeq([i \in 1..Len(result) |-> result[i][c][1]])

\* the largest of the three aggregates of the result is 1
LargestAggregateIsOne(result) ==
    /\ result # <<>> /\ IsQuotients(result)
    /\ LET divisor == result[1][1][2]
       IN  /\ \E c \in 1..3 : AggregateTimesDivisor(result, c) = divisor
           /\ \A c \in 1..3 : (AggregateTimesDivisor(result, c) - divisor) * divisor <= 0

\* the ratio of any two weights of the result is that of the same two
\* weights of the argument
RatiosUnchanged(arg, result) ==
    /\ IsQuotients(result)
    /\ \A i \in 1..Len(arg), c \in 1..3 : ~isnan(arg[i][c])
    /\ \A i, j \in 1..Len(arg), c, d \in 1..3 :
          result[i][c][1] * arg[j][d][1] = result[j][d][1] * arg[i][c][1]

AllAggregatesZero(arg) == \A c \in 1..3 : ChannelSum(arg, c, 1) = Float(0)

\* C21: after normalizeWeightsRGB on weights whose sums of the three
\* channels are not all zero, the largest of the three sums is 1 and the
\* ratios between the weights are unchanged; when the three sums are zero
\* the weights are unchanged.
C21_Normalised ==
    [][(lastCall'.op = "normalizeWeightsRGB") =>
          IF AllAggregatesZero(lastCall'.arg) THEN m_weightsRGB' = lastCall'.arg
          ELSE /\ LargestAggregateIsOne(m_weightsRGB')
               /\ RatiosUnchanged(lastCall'.arg, m_weightsRGB')]_vars

\* weights that are numbers, none below zero
IsNonNegative(arg) == \A i \in 1..Len(arg), c \in 1..3 : ~isnan(arg[i][c]) /\ arg[i][c][1] >= 0

\* the same for weights that are numbers and not below zero
C21_NonNegativeWeights ==
    [][(lastCall'.op = "normalizeWeightsRGB" /\ IsNonNegative(lastCall'.arg)) =>
          IF AllAggregatesZero(lastCall'.arg) THEN m_weightsRGB' = lastCall'.arg
          ELSE /\ LargestAggregateIsOne(m_weightsRGB')
               /\ RatiosUnchanged(lastCall'.arg, m_weightsRGB')]_vars

\* weights not below zero, with two conditions, have been divided
C21_NonNegativeDivided ==
    /\ lastCall.op = "normalizeWeightsRGB" /\ IsNonNegative(lastCall.arg)
    /\ Len(lastCall.arg) >= 2 /\ ~AllAggregatesZero(lastCall.arg)
    /\ m_weightsRGB # lastCall.arg

(***************************************************************************)
(* The objective of the optimisation in the PCA space.  cv::PCA is used by *)
(* its contract: made from a matrix of K columns of N rows with            *)
(* CV_PCA_DATA_AS_COL it retains min(N, K) components, and project() of a  *)
(* column vector is a matrix of that many rows and one column.  A matrix   *)
(* is [rows, cols, data], data holding column 0 from row 0.               *)
(***************************************************************************)
\* the number of components that pcaProjectionMatrix retains
PCAComponents(g) ==
    LET N == g.environmentMapHeight * g.environmentMapWidth
        K == g.numberOflightingConditions
    IN  IF N < K THEN N ELSE K

\* the coordinates of a projection
ProjectedValues == {-1, 0, 2}

\* pcaProjectionMatrix.project(column vector)
PCA_project(g) ==
    {[rows |-> PCAComponents(g), cols |-> 1, data |-> data] :
        data \in [1..PCAComponents(g) -> ProjectedValues]}

\* the loop on l of functionToOptimisePCASpace: result += pow(a - b, 2.0)
RECURSIVE SumOfSquares(_, _, _, _)
SumOfSquares(a, b, l, end) ==
    IF l >= end THEN 0
    ELSE (a.data[l + 1] - b.data[l + 1]) * (a.data[l + 1] - b.data[l + 1])
         + SumOfSquares(a, b, l + 1, end)

\* functionToOptimisePCASpace returns sqrt(result); this is result
functionToOptimisePCASpace(pcaProjectionOnWeightsBasis, envMapPCASpace) ==
    SumOfSquares(pcaProjectionOnWeightsBasis, envMapPCASpace, 0,
                 pcaProjectionOnWeightsBasis.cols)

\* one evaluation of the objective by find_min_box_constrained, after
\* computePCAMatrix has projected the map
FunctionToOptimisePCASpace ==
    /\ ~aborted /\ optimisationGlobals # StaticGlobals
    /\ \E projected \in PCA_project(optimisationGlobals),
          target \in PCA_project(optimisationGlobals) :
        lastCall' = [op |-> "functionToOptimisePCASpace",
                     pcaProjectionOnWeightsBasis |-> projected, envMapPCASpace |-> target,
                     result |-> functionToOptimisePCASpace(projected, target)]
    /\ UNCHANGED <<basisVars, sessionVars, voronoiVars, relightingVars, aborted, runVars>>

NextPCA ==
    \/ ConstructOptimisation
    \/ FunctionToOptimisePCASpace

SpecPCA == Init /\ [][NextPCA]_vars

\* C22: the value of functionToOptimisePCASpace is the square root of the
\* sum, over all the components of the projection, of the squares of the
\* differences between the projected reconstruction and the projected map.
C22_AllComponents ==
    (lastCall.op = "functionToOptimisePCASpace") =>
        lastCall.result = SumOfSquares(lastCall.pcaProjectionOnWeightsBasis,
                                       lastCall.envMapPCASpace, 0,
                                       lastCall.pcaProjectionOnWeightsBasis.rows)

\* the objective compares the first component
C22_FirstComponent ==
    (lastCall.op = "functionToOptimisePCASpace") =>
        lastCall.result = SumOfSquares(lastCall.pcaProjectionOnWeightsBasis,
                                       lastCall.envMapPCASpace, 0, 1)

(***************************************************************************)
(* saveVoronoi and loadVoronoi among the mutators of the Voronoi           *)
(***************************************************************************)
\* groupings handed to setCellNumberPerPicture: none, groups of one cell,
\* a group of two cells, groups without cells at either end
GroupLists ==
    {<<>>, << <<0>>, <<1>> >>, << <<1, 0>> >>, << <<>>, <<0, 1>> >>, << <<0>>, <<>> >>}

SetCellNumberPerPicture ==
    /\ ~aborted
    /\ \E cellNumberPerPicture \in GroupLists :
        SetV(Voronoi_setCellNumberPerPicture(V, cellNumberPerPicture))
    /\ lastCall' = [op |-> "setCellNumberPerPicture"]
    /\ UNCHANGED <<basisVars, sessionVars, relightingVars, runVars>>

\* the files are written once
SaveVoronoi ==
    /\ ~aborted /\ ~voronoiFile.exists
    /\ basisFile' = LightingBasis_saveBasis(m_basis)
    /\ voronoiFile' = [exists |-> TRUE, lines |-> Voronoi_saveVoronoi(V),
                       saved |-> m_cellNumberPerPicture]
    /\ lastCall' = [op |-> "saveVoronoi"]
    /\ UNCHANGED <<basis, sessionVars, voronoiVars, aborted, relightingVars, runVars>>

\* the basis holds twice its lights and those of the file afterwards
LoadVoronoi ==
    /\ ~aborted
    /\ Len(m_basis.pointLightSourcePosition) + Len(basisFile) <= MaxPointLights
    /\ SetV(Voronoi_loadVoronoi(V, basisFile, voronoiFile))
    /\ lastCall' = [op |-> "loadVoronoi", cleared |-> IsCleared(V)]
    /\ UNCHANGED <<basisVars, sessionVars, relightingVars, runVars>>

NextSave ==
    \/ AddPointLight
    \/ SetCellNumberPerPicture
    \/ SetEnvironmentMapSize
    \/ ClearVoronoi
    \/ SaveVoronoi
    \/ LoadVoronoi

SpecSave == Init /\ [][NextSave]_vars

\* a line of voronoi.txt holds the number of cells of a group, then that
\* many cell numbers
IsGroupLine(line, group) ==
    Len(line) = Len(group) + 1 /\ line[1] = Len(group) /\ SubSeq(line, 2, Len(line)) = group

\* C23: voronoi.txt as saveVoronoi writes it has one line per lighting
\* condition, the number of the cells of the condition and then that many
\* cell numbers; loadVoronoi reading the file leaves the groups that were
\* saved: as many groups, the same cell numbers in the same order, groups
\* without cells included.
C23_GroupsRoundTrip ==
    /\ voronoiFile.exists =>
          /\ Len(voronoiFile.lines) = Len(voronoiFile.saved)
          /\ \A i \in 1..Len(voronoiFile.lines) :
                IsGroupLine(voronoiFile.lines[i], voronoiFile.saved[i])
    /\ (lastCall.op = "loadVoronoi" /\ ~aborted /\ voronoiFile.exists) =>
          m_cellNumberPerPicture = voronoiFile.saved

\* loadVoronoi has read groups with one without cells in front, on a
\* Voronoi that held other groups when it was called
C23_Witness ==
    /\ lastCall.op = "loadVoronoi" /\ ~aborted /\ ~lastCall.cleared
    /\ voronoiFile.exists /\ Len(voronoiFile.saved) = 2 /\ voronoiFile.saved[1] = <<>>
    /\ m_cellNumberPerPicture = voronoiFile.saved
    /\ m_basis.pointLightSourcePosition # <<>>

\* C24: loadVoronoi on a Voronoi that clearVoronoi has emptied leaves in
\* the basis the point lights that saveVoronoi has written, in their order
\* and counted once.
C24_LightsRoundTrip ==
    (lastCall.op = "loadVoronoi" /\ lastCall.cleared /\ ~aborted) =>
        /\ m_basis.pointLightSourcePosition = FilePositions(basisFile)
        /\ m_basis.numberOfPointLights = Len(basisFile)

\* loadVoronoi leaves the point lights of the file twice
C24_LightsTwice ==
    (lastCall.op = "loadVoronoi" /\ lastCall.cleared /\ ~aborted) =>
        /\ m_basis.pointLightSourcePosition = FilePositions(basisFile) \o FilePositions(basisFile)
        /\ m_basis.numberOfPointLights = 2 * Len(basisFile)

\* saveVoronoi writes the point lights of the basis to basis.txt
C24_SavedLights ==
    [][(lastCall'.op = "saveVoronoi") =>
          FilePositions(basisFile') = m_basis.pointLightSourcePosition]_vars

(***************************************************************************)
(* computeVoronoiWeightsOR on the Voronoi that the identification          *)
(* strategies and the mutators have left                                   *)
(***************************************************************************)
NextMutators ==
    \/ AddPointLight
    \/ ClearVoronoi
    \/ IdentifyMedianEnergy
    \/ IdentifyLightsAutomatically
    \/ ComputeVoronoiWeightsOR

SpecMutators == Init /\ [][NextMutators]_vars

\* the image numbers that computeVoronoiWeightsOR gets from findImageNumber
\* for the cells of the pixels of the Voronoi v
ImageNumbersOfPixels(v) ==
    {findImageNumber(v, findNearestLightSource(v, j, i)) :
        <<j, i>> \in {px \in (0..(v.w - 1)) \X (0..(v.h - 1)) :
                         findNearestLightSource(v, px[1], px[2]) # -1}}

\* C25: in computeVoronoiWeightsOR the image number of the cell of every
\* pixel is an index of the weights: at least 0 and below the number of
\* the weights, which is the number of the groups.
C25_ValidImageNumber ==
    [][(lastCall'.op = "computeVoronoiWeightsOR" /\ V.sites # {}) =>
          \A imageNumber \in ImageNumbersOfPixels(V) :
              imageNumber >= 0 /\ imageNumber < Len(V.cells)]_vars

\* the same, on the Voronoi as a strategy has left it
C25_AfterIdentification ==
    [][(/\ lastCall.op \in {"identifyMedianEnergy", "identifyLightsAutomatically"}
        /\ lastCall'.op = "computeVoronoiWeightsOR" /\ V.sites # {}) =>
          \A imageNumber \in ImageNumbersOfPixels(V) :
              imageNumber >= 0 /\ imageNumber < Len(V.cells)]_vars

(***************************************************************************)
(* The weights that computeFinalRelighting reads                           *)
(***************************************************************************)
\* m_numberOfLightingConditions of the run: the strategies push one group
\* per lighting condition, and there is one mask file per condition
NumberOfLightingConditions ==
    IF lastCall.op = "relighting: masks" THEN Len(m_masks.condition_mask)
    ELSE Len(m_cellNumberPerPicture)

\* C26: the weights that a turn of the loop of relighting() hands to the
\* optimiser and to computeFinalRelighting hold at least one RGB triple per
\* lighting condition, whatever the light type and the identification
\* method.
C26_WeightsCoverConditions ==
    (lastCall.op \in LoopCalls /\ ~aborted) =>
        /\ Len(m_weightsRGB) >= NumberOfLightingConditions
        /\ \A i \in 1..NumberOfLightingConditions : Len(m_weightsRGB[i]) = 3

\* the same for the turns of the runs with the light type "Point"
C26_PointRuns == m_lightType = "Point" => C26_WeightsCoverConditions

\* a turn with the light type "Point" has left weights for two conditions
C26_PointTurn ==
    /\ lastCall.op = "relighting" /\ ~aborted /\ NumberOfLightingConditions >= 2
    /\ Len(m_weightsRGB) = NumberOfLightingConditions

(***************************************************************************)
(* Runs of the office-room relighting one after the other on the object of *)
(* the window, each followed up to loadReflectanceField                    *)
(***************************************************************************)
\* MainWindow::startOfficeRoomRelighting up to its call of relighting():
\* clearRelighting and setRelighting, which clear the Voronoi and set the
\* parameters of the run; the array of the reflectance field is not
\* touched.  The files of the run are found when relighting() reads them.
StartOfficeRoomRelighting ==
    /\ ~aborted /\ lastCall.op = "loadReflectanceField" /\ runs < MaxRuns
    /\ runs' = runs + 1
    /\ SetV(Voronoi_clearVoronoi(V))
    /\ files' = NoFiles
    /\ m_lightType' = ""
    /\ \E indirectLightPicture \in 1..MaxConditions :
        m_indirectLightPicture' = indirectLightPicture
    /\ lastCall' = [op |-> "setRelighting"]
    /\ UNCHANGED <<basisVars, userVars, window, masksOfRun, m_environmentMap, lastOffset, m_masks, m_weightsRGB,
                   optVars, m_reflectanceField, m_objectMask, cerr>>

NextRuns ==
    \/ StartOfficeRoomRelighting
    \/ RelightingLoadEnvironmentMap
    \/ RelightingLoadReflectanceField

SpecRuns == Init /\ [][NextRuns]_vars

\* C27: whenever loadReflectanceField writes the image of a lighting
\* condition, the array of the reflectance field has room for the lighting
\* conditions of the run, in every run on the same object.
C27_FieldHoldsConditions ==
    [][(lastCall'.op = "loadReflectanceField") =>
          /\ Len(m_reflectanceField') >= Len(files'.images)
          /\ ~WritesOutsideField(m_reflectanceField, files'.images)]_vars

\* the same for the first run on the object and for the runs with no more
\* lighting conditions than the first one
C27_FirstRun ==
    [][(/\ lastCall'.op = "loadReflectanceField"
        /\ (runs = 0 \/ Len(files'.images) <= Len(m_reflectanceField))) =>
          /\ Len(m_reflectanceField') >= Len(files'.images)
          /\ ~WritesOutsideField(m_reflectanceField, files'.images)]_vars

(***************************************************************************)
(* Manual selection of the lights: identifyLightsUser shows the picture of *)
(* every lighting condition and waits for a key, while the events of the   *)
(* mouse run callBackMouseEvents                                           *)
(***************************************************************************)
MouseEvents == {"EVENT_MOUSEMOVE", "EVENT_LBUTTONDOWN", "EVENT_RBUTTONDOWN", "EVENT_RBUTTONUP"}

\* where the events occur: inside the map, in its last column and row, and
\* in the column right of it
MouseCoordinates == {<<1, 1>>, <<InitWidth - 1, InitHeight - 1>>, <<InitWidth, 1>>}

\* (x>0) && (y>0) && (x<latLongWidth) && (y<latLongHeight)
IsInsideLatLong(x, y, latLongWidth, latLongHeight) ==
    x > 0 /\ y > 0 /\ x < latLongWidth /\ y < latLongHeight

\* callBackMouseEvents: the parameters and the Voronoi it leaves
callBackMouseEvents(event, x, y, parameters, v) ==
    LET inside == IsInsideLatLong(x, y, v.w, v.h)
        moved == IF parameters.isPressed /\ inside
                 THEN [parameters EXCEPT !.endingPoint = <<x, y>>] ELSE parameters
    IN  CASE event = "EVENT_LBUTTONDOWN" ->
               [parameters |-> [moved EXCEPT !.startingPoint = <<x, y>>,
                                             !.numberOfLightSourcesAdded = @ + 1],
                voronoi |-> Voronoi_addPointLight(v, <<x, y>>)]
          [] event = "EVENT_RBUTTONDOWN" ->
               [parameters |-> [moved EXCEPT !.startingPoint = <<x, y>>,
                                             !.endingPoint = <<x, y>>, !.isPressed = TRUE],
                voronoi |-> v]
          [] event = "EVENT_RBUTTONUP" ->
               LET released == [moved EXCEPT !.isPressed = FALSE,
                                             !.endingPoint = IF inside THEN <<x, y>> ELSE @]
                   added == Voronoi_addAreaLight(v, released.startingPoint,
                                                 released.endingPoint)
               IN  [parameters |-> IF added.aborted THEN released
                                   ELSE [released EXCEPT !.numberOfLightSourcesAdded = @ + 1],
                    voronoi |-> added]
          [] OTHER -> [parameters |-> moved, voronoi |-> v]

\* the body of the loop of identifyLightsUser after waitKey(0): the cells
\* of the picture i are the next numberOfLightSourcesAdded cell numbers
CellsForImage(cellNumber, numberOfLightSourcesAdded) ==
    [j \in 1..numberOfLightSourcesAdded |-> cellNumber + j - 1]

\* identifyLightsUser is entered: the picture of the condition 0 is shown
IdentifyLightsUser ==
    /\ ~aborted /\ IsCleared(V) /\ m_lightType = "" /\ ~manualSelection.active
    /\ lastCall.op = "Voronoi"
    /\ \E numberOfLightingConditions \in 1..MaxConditions :
        manualSelection' = [active |-> TRUE, i |-> 0, cellNumber |-> 0,
                            cellNumberPerPicture |-> <<>>,
                            numberOfLightingConditions |-> numberOfLightingConditions,
                            lightsBefore |-> Len(m_basis.pointLightSourcePosition)]
    /\ mouseParameters' = MouseParameters
    /\ lastCall' = [op |-> "identifyLightsUser"]
    /\ UNCHANGED <<basisVars, runs, window, masksOfRun, voronoiVars, aborted, relightingVars,
                   runVars>>

\* an event of the mouse on the window of the picture
CallBackMouseEvents ==
    /\ ~aborted /\ manualSelection.active /\ CanGrow
    /\ Len(m_basis.rectanglesAreaLights) < MaxAreaLights
    /\ mouseParameters.numberOfLightSourcesAdded < MaxPointLights
    /\ \E event \in MouseEvents, position \in MouseCoordinates :
        LET handled == callBackMouseEvents(event, position[1], position[2],
                                           mouseParameters, V)
        IN  /\ mouseParameters' = handled.parameters
            /\ SetV(handled.voronoi)
            /\ lastCall' = [op |-> "callBackMouseEvents", event |-> event]
    /\ UNCHANGED <<basisVars, runs, window, masksOfRun, manualSelection, relightingVars,
                   runVars>>

\* a key ends waitKey(0): the cells of the picture are pushed and the next
\* picture is shown; after the last picture the groups are handed to the
\* Voronoi
WaitKey ==
    /\ ~aborted /\ manualSelection.active
    /\ LET cellsForImagei == CellsForImage(manualSelection.cellNumber,
                                           mouseParameters.numberOfLightSourcesAdded)
           cellNumberPerPicture == Append(manualSelection.cellNumberPerPicture, cellsForImagei)
           last == manualSelection.i + 1 >= manualSelection.numberOfLightingConditions
       IN  /\ manualSelection' =
                 [manualSelection EXCEPT
                     !.active = ~last, !.i = @ + 1,
                     !.cellNumber = @ + mouseParameters.numberOfLightSourcesAdded,
                     !.cellNumberPerPicture = cellNumberPerPicture,
                     !.lightsBefore = Len(m_basis.pointLightSourcePosition)]
           /\ SetV(IF last THEN Voronoi_setCellNumberPerPicture(V, cellNumberPerPicture) ELSE V)
           /\ lastCall' = [op |-> "waitKey", cellsForImagei |-> cellsForImagei,
                           lightsBefore |-> manualSelection.lightsBefore,
                           lights |-> Len(m_basis.pointLightSourcePosition)]
    /\ mouseParameters' = [mouseParameters EXCEPT !.numberOfLightSourcesAdded = 0]
    /\ UNCHANGED <<basisVars, runs, window, masksOfRun, relightingVars, runVars>>

NextManual ==
    \/ IdentifyLightsUser
    \/ CallBackMouseEvents
    \/ WaitKey

SpecManual == Init /\ [][NextManual]_vars

\* C28: when the selection for a lighting condition ends, the cells that
\* identifyLightsUser attributes to the condition are the cells of the
\* point lights that the events of the condition have appended to the
\* basis: as many, with the same numbers.
C28_CellsAreLightsAdded ==
    (lastCall.op = "waitKey") =>
        lastCall.cellsForImagei =
            [j \in 1..(lastCall.lights - lastCall.lightsBefore) |-> lastCall.lightsBefore + j - 1]

\* the same as long as every event has added a light
C28_WhileAllAdded ==
    (/\ lastCall.op = "waitKey"
     /\ manualSelection.cellNumber = Len(m_basis.pointLightSourcePosition)) =>
        lastCall.cellsForImagei =
            [j \in 1..(lastCall.lights - lastCall.lightsBefore) |-> lastCall.lightsBefore + j - 1]

(***************************************************************************)
(* The office-room tab of the window: the combo box of the objects, the    *)
(* spin box of the number of lighting conditions and the spin box of the   *)
(* picture of the dark room.  QSpinBox keeps minimum <= value <= maximum.  *)
(***************************************************************************)
MaxSpinBox == 12        \* the user enters 1..MaxSpinBox lighting conditions (1..1000 in the window)

ObjectsOR ==
    {"Bird", "Egg", "Bird_bedroom", "Egg_bedroom", "Bird_bedroom45", "Egg_bedroom45",
     "PlantOR", "HelmetOR"}

\* QSpinBox::setValue: the value is brought into the range
QSpinBox_setValue(box, value) ==
    [box EXCEPT !.value = IF value < box.minimum THEN box.minimum
                          ELSE IF value > box.maximum THEN box.maximum ELSE value]

\* QSpinBox::setRange: a maximum below the minimum becomes the minimum, and
\* the value is brought into the new range
QSpinBox_setRange(box, minimum, maximum) ==
    QSpinBox_setValue([box EXCEPT !.minimum = minimum,
                                  !.maximum = IF maximum < minimum THEN minimum ELSE maximum],
                      box.value)

\* the slot of valueChanged(int) of the number of lighting conditions
changeRangeIndirectLightPicture(w, indirectLightPicture) ==
    [w EXCEPT !.indirectLightPictureOR = QSpinBox_setRange(@, 1, indirectLightPicture)]

\* m_numberOfLightingConditionsOR->setValue(value) with its signal, which
\* is emitted when the value has changed
SetNumberOfLightingConditionsOR(w, value) ==
    LET box == QSpinBox_setValue(w.numberOfLightingConditionsOR, value)
        set == [w EXCEPT !.numberOfLightingConditionsOR = box]
    IN  IF box.value # w.numberOfLightingConditionsOR.value
        THEN changeRangeIndirectLightPicture(set, box.value) ELSE set

updateParametersOR(w, object) ==
    LET bedroom == object \in {"Bird_bedroom", "Egg_bedroom", "Egg_bedroom45", "Bird_bedroom45"}
        set == SetNumberOfLightingConditionsOR(w, IF bedroom THEN 12 ELSE 9)
    IN  [set EXCEPT !.indirectLightPictureOR =
            QSpinBox_setValue(QSpinBox_setRange(@, 0, set.numberOfLightingConditionsOR.value),
                              IF bedroom THEN 0 ELSE 4)]

\* the user chooses another object: currentIndexChanged(QString)
UpdateParametersOR ==
    /\ \E object \in ObjectsOR \ {window.object} :
        window' = updateParametersOR([window EXCEPT !.object = object], object)
    /\ lastCall' = [op |-> "updateParametersOR"]
    /\ UNCHANGED <<basisVars, runs, userVars, masksOfRun, voronoiVars, aborted, relightingVars,
                   runVars>>

\* the user changes the number of lighting conditions
ChangeRangeIndirectLightPicture ==
    /\ \E value \in 1..MaxSpinBox :
        /\ value # window.numberOfLightingConditionsOR.value
        /\ window' = SetNumberOfLightingConditionsOR(window, value)
    /\ lastCall' = [op |-> "changeRangeIndirectLightPicture"]
    /\ UNCHANGED <<basisVars, runs, userVars, masksOfRun, voronoiVars, aborted, relightingVars,
                   runVars>>

\* the user changes the picture of the dark room, within the range of the
\* spin box
ChangeIndirectLightPictureOR ==
    /\ \E value \in window.indirectLightPictureOR.minimum..window.indirectLightPictureOR.maximum :
        /\ value # window.indirectLightPictureOR.value
        /\ window' = [window EXCEPT !.indirectLightPictureOR = QSpinBox_setValue(@, value)]
    /\ lastCall' = [op |-> "indirectLightPictureOR"]
    /\ UNCHANGED <<basisVars, runs, userVars, masksOfRun, voronoiVars, aborted, relightingVars,
                   runVars>>

\* startOfficeRoomRelighting reads the spin boxes and passes their values
\* to setRelighting
SetRelightingOR ==
    /\ lastCall.op # "setRelightingOR"
    /\ lastCall' = [op |-> "setRelightingOR",
                    numberOfLightingConditions |-> window.numberOfLightingConditionsOR.value,
                    indirectLightPicture |-> window.indirectLightPictureOR.value]
    /\ UNCHANGED <<basisVars, sessionVars, voronoiVars, aborted, relightingVars, runVars>>

NextWindow ==
    \/ UpdateParametersOR
    \/ ChangeRangeIndirectLightPicture
    \/ ChangeIndirectLightPictureOR
    \/ SetRelightingOR

SpecWindow == Init /\ [][NextWindow]_vars

\* C29: the picture of the dark room that the window passes to
\* setRelighting is the index of a lighting condition:
\* 0 <= indirectLightPicture < numberOfLightingConditions.
C29_ValidIndirectLightPicture ==
    (lastCall.op = "setRelightingOR") =>
        /\ 0 <= lastCall.indirectLightPicture
        /\ lastCall.indirectLightPicture < lastCall.numberOfLightingConditions

\* the ranges that the window sets end at the number of lighting conditions
C29_AtMostNumberOfConditions ==
    /\ window.indirectLightPictureOR.maximum = window.numberOfLightingConditionsOR.value
    /\ window.indirectLightPictureOR.minimum \in {0, 1}
    /\ (lastCall.op = "setRelightingOR") =>
        /\ 0 <= lastCall.indirectLightPicture
        /\ lastCall.indirectLightPicture <= lastCall.numberOfLightingConditions

(***************************************************************************)
(* The mask files of a run.  A file is a record: the folders below the     *)
(* folder of the application, the name before the number, and the digits   *)
(* of the number as they are written.                                      *)
(***************************************************************************)
MasksTypes == {"High Frequency", "Low Frequency"}

\* operator<< of an unsigned int: its decimal digits
RECURSIVE DecimalDigits(_)
DecimalDigits(k) == IF k < 10 THEN <<k>> ELSE Append(DecimalDigits(k \div 10), k % 10)

\* "condition_mask0" << k for k < 10, "condition_mask" << k otherwise
ConditionMaskNumber(k) == IF k < 10 THEN <<0>> \o DecimalDigits(k) ELSE DecimalDigits(k)

\* the stream that holds the folder of the application and nothing more
NoMaskFile == [folder |-> <<>>, file |-> "", number |-> <<>>]

\* setMaskAndRoomTypes: m_roomType and m_masksType of a run
setMaskAndRoomTypes(m_object, m_masksType) ==
    [roomType |-> IF m_object \in {"Egg_bedroom", "Bird_bedroom"} THEN "bedroom"
                  ELSE IF m_object \in {"Egg_bedroom45", "Bird_bedroom45"} THEN "bedroom45"
                  ELSE "office",
     masksType |-> IF m_masksType = "High Frequency" THEN "high_freq" ELSE "low_freq"]

\* the file that computeWeightsMasks reads for the condition k
computeWeightsMasks_mask(k, indirectLightPicture, roomType, masksType) ==
    IF k # indirectLightPicture
    THEN [folder |-> <<"lighting_conditions", "office_room", roomType, masksType>>,
          file |-> "condition_mask", number |-> ConditionMaskNumber(k)]
    ELSE [folder |-> <<"lighting_conditions", "office_room", roomType, masksType>>,
          file |-> "residualMask", number |-> <<>>]

\* the file that functionToOptimisePCASpace reads for the variable k
functionToOptimisePCASpace_mask(k, indirectLightPictureGlobal, roomTypeGlobal, masksTypeGlobal) ==
    IF k # indirectLightPictureGlobal
    THEN [folder |-> <<"lighting_conditions", "office_room", roomTypeGlobal, masksTypeGlobal>>,
          file |-> "condition_mask", number |-> ConditionMaskNumber(k)]
    ELSE [folder |-> <<"lighting_conditions", "office_room", roomTypeGlobal, masksTypeGlobal>>,
          file |-> "residualMask", number |-> <<>>]

\* the file that computePCAMatrix reads for the condition k
computePCAMatrix_mask(k, indirectLightPictureGlobal, masksTypeGlobal) ==
    IF k # indirectLightPictureGlobal
    THEN [folder |-> <<"lighting_conditions", "office_room", masksTypeGlobal>>,
          file |-> "condition_mask", number |-> ConditionMaskNumber(k)]
    ELSE IF masksTypeGlobal \in {"High Frequency", "Low Frequency"}
         THEN [folder |-> <<"lighting_conditions", "office_room", "high_freq">>,
               file |-> "residualMask", number |-> <<>>]
         ELSE NoMaskFile

\* relighting() begins: the types of the run are set; the object, the type
\* of the masks, the number of lighting conditions and the picture of the
\* dark room are those of setRelighting
SetMaskAndRoomTypes ==
    /\ ~masksOfRun.set
    /\ \E m_object \in ObjectsOR, m_masksType \in MasksTypes,
          numberOfLightingConditions \in 1..MaxSpinBox :
        \E indirectLightPicture \in 0..(numberOfLightingConditions - 1) :
            masksOfRun' = [set |-> TRUE,
                          types |-> setMaskAndRoomTypes(m_object, m_masksType),
                          numberOfLightingConditions |-> numberOfLightingConditions,
                          indirectLightPicture |-> indirectLightPicture,
                          read |-> {}]
    /\ lastCall' = [op |-> "setMaskAndRoomTypes"]
    /\ UNCHANGED <<basisVars, runs, userVars, window, voronoiVars, aborted, relightingVars,
                   runVars>>

\* the loop on k of computeWeightsMasks
ComputeWeightsMasks ==
    /\ masksOfRun.set
    /\ lastCall' = [op |-> "computeWeightsMasks",
                    masks |-> [k \in 0..(masksOfRun.numberOfLightingConditions - 1) |->
                                computeWeightsMasks_mask(k, masksOfRun.indirectLightPicture,
                                    masksOfRun.types.roomType, masksOfRun.types.masksType)]]
    /\ masksOfRun' = [masksOfRun EXCEPT !.read = @ \cup {lastCall'}]
    /\ UNCHANGED <<basisVars, runs, userVars, window, voronoiVars, aborted, relightingVars,
                   runVars>>

\* the loop on k of computePCAMatrix, on the static variables that the
\* Optimisation of the run has set
ComputePCAMatrix ==
    /\ masksOfRun.set
    /\ lastCall' = [op |-> "computePCAMatrix",
                    masks |-> [k \in 0..(masksOfRun.numberOfLightingConditions - 1) |->
                                computePCAMatrix_mask(k, masksOfRun.indirectLightPicture,
                                    masksOfRun.types.masksType)]]
    /\ masksOfRun' = [masksOfRun EXCEPT !.read = @ \cup {lastCall'}]
    /\ UNCHANGED <<basisVars, runs, userVars, window, voronoiVars, aborted, relightingVars,
                   runVars>>

\* the loop on k of functionToOptimisePCASpace
MasksOfFunctionToOptimisePCASpace ==
    /\ masksOfRun.set
    /\ lastCall' = [op |-> "functionToOptimisePCASpace",
                    masks |-> [k \in 0..(masksOfRun.numberOfLightingConditions - 1) |->
                                functionToOptimisePCASpace_mask(k, masksOfRun.indirectLightPicture,
                                    masksOfRun.types.roomType, masksOfRun.types.masksType)]]
    /\ masksOfRun' = [masksOfRun EXCEPT !.read = @ \cup {lastCall'}]
    /\ UNCHANGED <<basisVars, runs, userVars, window, voronoiVars, aborted, relightingVars,
                   runVars>>

NextMasks ==
    \/ SetMaskAndRoomTypes
    \/ ComputeWeightsMasks
    \/ ComputePCAMatrix
    \/ MasksOfFunctionToOptimisePCASpace

SpecMasks == Init /\ [][NextMasks]_vars

\* the mask of the condition k in the folder of the room and of the type
\* of the masks, the residual mask of that folder for the dark room
MaskFileOfCondition(k) ==
    [folder |-> <<"lighting_conditions", "office_room", masksOfRun.types.roomType,
                  masksOfRun.types.masksType>>,
     file |-> IF k = masksOfRun.indirectLightPicture THEN "residualMask" ELSE "condition_mask",
     number |-> IF k = masksOfRun.indirectLightPicture THEN <<>>
                ELSE IF k < 10 THEN <<0, k>> ELSE <<k \div 10, k % 10>>]

ReadTheMasksOfTheRoom(readers) ==
    masksOfRun.set =>
        \A reading \in masksOfRun.read :
            reading.op \in readers =>
                \A k \in 0..(masksOfRun.numberOfLightingConditions - 1) :
                    reading.masks[k] = MaskFileOfCondition(k)

\* C30: for every condition k, room type and type of masks, computePCAMatrix
\* reads the same mask file as functionToOptimisePCASpace and
\* computeWeightsMasks: the mask of the condition in the folder of the room
\* and of the type of the masks, and the residual mask of that folder for
\* the picture of the dark room.
C30_SameMaskFile ==
    ReadTheMasksOfTheRoom({"computePCAMatrix", "functionToOptimisePCASpace",
                           "computeWeightsMasks"})

\* the objective in PCA space and computeWeightsMasks read these files
C30_ObjectiveAndWeights ==
    ReadTheMasksOfTheRoom({"functionToOptimisePCASpace", "computeWeightsMasks"})

\* both have read the masks of a run of at least ten conditions
C30_ObjectiveAndWeightsRead ==
    /\ masksOfRun.set /\ masksOfRun.numberOfLightingConditions > 10
    /\ {reading.op : reading \in masksOfRun.read} =
           {"functionToOptimisePCASpace", "computeWeightsMasks"}

====
